---- MODULE Spec2Model ----
(***************************************************************************)
(* Streak engines of the Vision-Board app.                                 *)
(*                                                                         *)
(*   src/src/date.ts           local calendar dates as YYYY-MM-DD strings  *)
(*   src/src/streak.ts         simple daily streak (Firestore transaction) *)
(*   src/src/freedomStreak.ts  freedom streak: levels, weekly mode, recap, *)
(*                             localStorage fallback                       *)
(*                                                                         *)
(* A YYYY-MM-DD string is the tuple <<y, m, d>>; a JS Date at local        *)
(* midnight is the number of days since 2024-01-01.  String equality       *)
(* (===) is tuple equality; date arithmetic goes through the two           *)
(* conversions, as in the code.                                            *)
(***************************************************************************)
EXTENDS Integers, Sequences, FiniteSets, TLC

VARIABLES
    streakDoc,    \* remote document users/{uid}/stats/streak
    streakVer,    \* number of committed writes of streakDoc (its update time)
    tab,          \* per browser tab: the running recordActivityForUser call
    freedomDoc,   \* remote document users/{uid}/stats/freedom
    cache,        \* localStorage entry freedom_streak:{uid}
    call,         \* the last completed markCleanToday / markBrokeIt call
    app,          \* state of the App component (src/App.tsx)
    client,       \* per tab: the running markCleanToday / markBrokeIt call
    freedomVer,   \* number of committed writes of freedomDoc
    net,          \* whether the document store answers: "up" or "silent"
    ladder,       \* the device clock and the days called on under it
    journal,      \* remote documents users/{uid}/journals/{date}
    serverTime    \* the clock serverTimestamp() is resolved against

vars == <<streakDoc, streakVer, tab, freedomDoc, cache, call,
          app, client, freedomVer, net, ladder, journal, serverTime>>

streakVars == <<streakDoc, streakVer, tab>>
freedomVars == <<freedomDoc, cache, call>>
appVars == <<app>>
flightVars == <<client, freedomVer, net>>
ladderVars == <<ladder>>
journalVars == <<journal, serverTime>>

----------------------------------------------------------------------------
(* Bounds *)

\* number of calendar days a call may name as "today"
MaxDay == 3

\* number of calendar days a markCleanToday / markBrokeIt call may name
\* as "today" in a session with unboundedly many calls
MaxFreedomDay == 2

\* number of committed writes of the streak document in one behaviour
MaxWrites == 3

\* number of markCleanToday / markBrokeIt calls in one behaviour with
\* failing local storage
MaxCalls == 2

\* number of logActivity calls in one behaviour of the App component
MaxLogs == 2

\* number of local calendar days on which logActivity is called
MaxLogDay == 2

\* number of markCleanToday / markBrokeIt calls of one tab in a behaviour
\* with calls in flight
MaxFlights == 1

\* number of days the device clock runs through in a session on the ladder
MaxLadderDay == 18

\* number of days from the first within which the device clock may be set
\* back, and stays once it was
MaxReplayDay == 7

\* number of instants of the server clock in a session of journal writes
MaxServerTime == 3

----------------------------------------------------------------------------
(* Calendar: src/src/date.ts and the JS Date operations the code uses *)

Year == 2024

\* JS null for a date string
NullDate == <<0, 0, 0>>

MonthLen(m) ==
    IF m = 2 THEN 29
    ELSE IF m \in {4, 6, 9, 11} THEN 30 ELSE 31

RECURSIVE DaysBefore(_)
DaysBefore(m) ==
    IF m <= 1 THEN 0 ELSE DaysBefore(m - 1) + MonthLen(m - 1)

\* days of the year before the first of month m, tabulated
MonthStart == [m \in 1..13 |-> DaysBefore(m)]

DaysBeforeMonth(m) == MonthStart[m]

\* new Date(y, m - 1, d): local midnight, as days since 2024-01-01
fromISODateLocal(iso) == DaysBeforeMonth(iso[2]) + iso[3] - 1

RECURSIVE MonthOf(_, _)
MonthOf(n, m) ==
    IF m >= 12 \/ n < DaysBeforeMonth(m + 1) THEN m ELSE MonthOf(n, m + 1)

\* getFullYear / getMonth + 1 / getDate of a Date
CalendarFields(n) ==
    LET m == MonthOf(n, 1)
    IN  <<Year, m, n - DaysBeforeMonth(m) + 1>>

\* the calendar fields of every day of the year, tabulated
CalendarOf == [n \in 0 .. (DaysBefore(13) - 1) |-> CalendarFields(n)]

\* `${year}-${month}-${day}`, zero padded
toLocalISODate(n) == CalendarOf[n]

\* copy.setDate(copy.getDate() + days)
addDays(n, days) == n + days

\* Date.prototype.getDay: 0 Sun ... 6 Sat (2024-01-01 is a Monday)
getDay(n) == (n + 1) % 7

\* first day a call may name: Saturday 2024-03-30
FirstDay == fromISODateLocal(<<Year, 3, 30>>)

Days == FirstDay .. (FirstDay + MaxDay - 1)

\* the todayISO arguments
Dates == { toLocalISODate(n) : n \in Days }

\* first day of a session with unboundedly many freedom calls: Sunday
\* 2024-03-31, the last day of a week and of a month
FirstFreedomDay == FirstDay + 1

FreedomDays == FirstFreedomDay .. (FirstFreedomDay + MaxFreedomDay - 1)

\* the todayISO arguments of such a session
FreedomDates == { toLocalISODate(n) : n \in FreedomDays }

----------------------------------------------------------------------------
(* Simple streak engine: src/src/streak.ts *)

Max(a, b) == IF a >= b THEN a ELSE b
Min(a, b) == IF a <= b THEN a ELSE b

\* snap.exists() is false
NoStreakDoc == [exists |-> FALSE]

\* the record used when the document does not exist
DefaultStreak ==
    [exists |-> TRUE, currentStreak |-> 0, longestStreak |-> 0,
     lastActiveDate |-> NullDate]

StreakPrev(snap) == IF snap.exists THEN snap ELSE DefaultStreak

\* mutant: a repeated call on the same day is counted again
NextCurrentCountsSameDay(prev, todayISO) ==
    LET last == prev.lastActiveDate
    IN  IF last = NullDate THEN 1
        ELSE IF toLocalISODate(addDays(fromISODateLocal(last), 1)) = todayISO
                \/ last = todayISO
             THEN prev.currentStreak + 1
             ELSE 1

\* mutant: any later day continues the streak
NextCurrentIgnoresGap(prev, todayISO) ==
    LET last == prev.lastActiveDate
    IN  IF last = NullDate THEN 1
        ELSE IF last = todayISO THEN prev.currentStreak
        ELSE IF fromISODateLocal(last) < fromISODateLocal(todayISO)
             THEN prev.currentStreak + 1
             ELSE 1

\* nextCurrent of the transaction body
NextCurrent(prev, todayISO) ==
    LET last == prev.lastActiveDate
    IN  IF last = NullDate THEN 1
        ELSE IF last = todayISO THEN prev.currentStreak
        ELSE LET lastDate == fromISODateLocal(last)
                 expectedNext == toLocalISODate(addDays(lastDate, 1))
             IN  IF expectedNext = todayISO
                 THEN prev.currentStreak + 1
                 ELSE 1

\* mutant: the longest streak follows the current one
NextLongestFollowsCurrent(prev, nextCurrent) == nextCurrent

\* nextLongest of the transaction body
NextLongest(prev, nextCurrent) == Max(prev.longestStreak, nextCurrent)

\* nextDoc of the transaction body (updatedAt / createdAt left out)
NextStreakDoc(snap, todayISO) ==
    LET prev == StreakPrev(snap)
        nextCurrent == NextCurrent(prev, todayISO)
    IN  [exists |-> TRUE,
         currentStreak |-> nextCurrent,
         longestStreak |-> NextLongest(prev, nextCurrent),
         lastActiveDate |-> todayISO]

Tabs == {1, 2}

IdleTab ==
    [pc |-> "idle", today |-> NullDate, snap |-> NoStreakDoc, ver |-> 0,
     first |-> NoStreakDoc, attempts |-> 0]

\* recordActivityForUser(uid, d) up to tx.get(ref) of the first attempt
BeginRecord(t, d) ==
    /\ tab[t].pc \in {"idle", "done", "failed"}
    /\ streakVer < MaxWrites
    /\ tab' = [tab EXCEPT ![t] =
                 [pc |-> "read", today |-> d, snap |-> streakDoc,
                  ver |-> streakVer, first |-> streakDoc, attempts |-> 1]]
    /\ UNCHANGED <<streakDoc, streakVer, freedomVars, appVars, flightVars, ladderVars, journalVars>>

\* the commit of the transaction: tx.set(ref, nextDoc, {merge: true}) is
\* applied when the document read is still current
CommitRecord(t) ==
    /\ tab[t].pc = "read"
    /\ tab[t].ver = streakVer
    /\ streakDoc' = NextStreakDoc(tab[t].snap, tab[t].today)
    /\ streakVer' = streakVer + 1
    /\ tab' = [tab EXCEPT ![t].pc = "done"]
    /\ UNCHANGED <<freedomVars, appVars, flightVars, ladderVars, journalVars>>

\* the document changed since tx.get: runTransaction runs the body again
RetryRecord(t) ==
    /\ tab[t].pc = "read"
    /\ tab[t].ver # streakVer
    /\ tab' = [tab EXCEPT ![t].snap = streakDoc, ![t].ver = streakVer,
                          ![t].attempts = Min(2, @ + 1)]
    /\ UNCHANGED <<streakDoc, streakVer, freedomVars, appVars, flightVars, ladderVars, journalVars>>

\* mutant: the rejection of runTransaction is swallowed and the call
\* resolves
FailRecordSwallowed(t) ==
    /\ tab[t].pc = "read"
    /\ tab' = [tab EXCEPT ![t].pc = "done"]
    /\ UNCHANGED <<streakDoc, streakVer, freedomVars, appVars, flightVars, ladderVars, journalVars>>

\* runTransaction rejects (network, permission, retries used up): the
\* await on line 39 throws and nothing is written
FailRecord(t) ==
    /\ tab[t].pc = "read"
    /\ tab' = [tab EXCEPT ![t].pc = "failed"]
    /\ UNCHANGED <<streakDoc, streakVer, freedomVars, appVars, flightVars, ladderVars, journalVars>>

StreakInit ==
    /\ streakDoc = NoStreakDoc
    /\ streakVer = 0
    /\ tab = [t \in Tabs |-> IdleTab]

StreakNext ==
    \/ \E t \in Tabs, d \in Dates : BeginRecord(t, d)
    \/ \E t \in Tabs : CommitRecord(t)
    \/ \E t \in Tabs : RetryRecord(t)
    \/ \E t \in Tabs : FailRecord(t)

----------------------------------------------------------------------------
(* Freedom streak engine: src/src/freedomStreak.ts *)

LEVEL_TARGETS == <<2, 3, 5, 7>>

\* snap.exists() is false / localStorage.getItem returns null
NoFreedomDoc == [exists |-> FALSE]

\* weekly_actions: {}
NoActions == [k \in {} |-> "clean"]

defaultDoc ==
    [exists |-> TRUE,
     current_level |-> 0,
     target_days |-> 2,
     current_streak |-> 0,
     last_action_date |-> NullDate,
     last_action_kind |-> "null",
     weekly_recap_week_start |-> NullDate,
     weekly_actions |-> NoActions,
     weekly_usage_count |-> 0,
     weekly_reset_date |-> NullDate]

\* mutant: the spread is the wrong way round, { ...d, ...defaultDoc(uid) }
MergeOntoDefaultReversed(d) == defaultDoc

\* { ...defaultDoc(uid), ...d }: a field missing from d takes its default
\* value (lines 54, 113-117, 146, 210)
MergeOntoDefault(d) ==
    IF DOMAIN d = DOMAIN defaultDoc THEN d
    ELSE [f \in DOMAIN defaultDoc |-> IF f \in DOMAIN d THEN d[f] ELSE defaultDoc[f]]

\* readFreedomCache(uid): null, or the parsed entry spread over defaultDoc
readFreedomCache(c) == IF c.exists THEN MergeOntoDefault(c) ELSE NoFreedomDoc

\* readFreedomCache(uid) ?? defaultDoc(uid)
CachedOrDefault(c) == IF readFreedomCache(c).exists THEN readFreedomCache(c) ELSE defaultDoc

\* mutant: the transaction builds on the cached record when there is one
SnapOrDefaultPrefersCache(snap) ==
    IF cache.exists THEN MergeOntoDefault(cache)
    ELSE IF snap.exists THEN MergeOntoDefault(snap) ELSE defaultDoc

\* snap.exists() ? {...defaultDoc(uid), ...snap.data()} : defaultDoc(uid)
SnapOrDefault(snap) == IF snap.exists THEN MergeOntoDefault(snap) ELSE defaultDoc

\* mutant: weekly mode starts above level 4
getFreedomModeAboveFour(doc) ==
    IF doc.current_level > 4 THEN "weekly" ELSE "progressive"

\* lines 69-71
getFreedomMode(doc) ==
    IF doc.current_level >= 4 THEN "weekly" ELSE "progressive"

\* Monday-start week of a Date, as a YYYY-MM-DD string
startOfWeekISO(n) ==
    LET dow == getDay(n)
        diffToMonday == (dow + 6) % 7
    IN  toLocalISODate(n - diffToMonday)

\* {...baseActions, [todayISO]: kind}
PutAction(baseActions, todayISO, kind) ==
    [k \in (DOMAIN baseActions) \cup {todayISO} |->
        IF k = todayISO THEN kind ELSE baseActions[k]]

\* the two fields applyWeeklyRecap returns
applyWeeklyRecap(prev, todayISO, kind) ==
    LET weekStart == startOfWeekISO(fromISODateLocal(todayISO))
        needsReset == prev.weekly_recap_week_start # weekStart
        baseActions == IF needsReset THEN NoActions ELSE prev.weekly_actions
    IN  [weekly_recap_week_start |-> weekStart,
         weekly_actions |-> PutAction(baseActions, todayISO, kind)]

\* {...prev, ...recap}
WithRecap(prev, recap) ==
    [prev EXCEPT !.weekly_recap_week_start = recap.weekly_recap_week_start,
                 !.weekly_actions = recap.weekly_actions]

\* mutant: no adjacency test, every new day continues the streak
NextStreakAlwaysIncrements(prev, today) == prev.current_streak + 1

\* nextStreak of markCleanToday (lines 238-243 and 167-172)
NextStreak(prev, today) ==
    IF prev.last_action_date # NullDate
    THEN LET lastDate == fromISODateLocal(prev.last_action_date)
             expected == toLocalISODate(addDays(lastDate, 1))
         IN  IF expected = today THEN prev.current_streak + 1 ELSE 1
    ELSE 1

\* mutant: the target of the level just completed is kept
TargetAtCompletedLevel(level) == LEVEL_TARGETS[Max(1, level)]

\* LEVEL_TARGETS[nextLevel] ?? 7
TargetAt(level) == IF level + 1 \in DOMAIN LEVEL_TARGETS THEN LEVEL_TARGETS[level + 1] ELSE 7

\* mutant: the target is not advanced when a level is completed
LevelStepStaleTarget(prev, nextStreak) ==
    IF nextStreak >= prev.target_days
    THEN LET nextLevel == Min(4, prev.current_level + 1)
         IN  [levelCompleted |-> TRUE,
              enteredWeeklyMode |-> nextLevel >= 4,
              current_level |-> nextLevel,
              target_days |-> prev.target_days,
              current_streak |-> 0]
    ELSE [levelCompleted |-> FALSE, enteredWeeklyMode |-> FALSE,
          current_level |-> prev.current_level,
          target_days |-> prev.target_days,
          current_streak |-> nextStreak]

\* mutant: a level is completed only when the streak exceeds the target
LevelStepStrict(prev, nextStreak) ==
    IF nextStreak > prev.target_days
    THEN LET nextLevel == Min(4, prev.current_level + 1)
         IN  [levelCompleted |-> TRUE,
              enteredWeeklyMode |-> nextLevel >= 4,
              current_level |-> nextLevel,
              target_days |-> IF nextLevel >= 4 THEN prev.target_days
                              ELSE TargetAt(nextLevel),
              current_streak |-> 0]
    ELSE [levelCompleted |-> FALSE, enteredWeeklyMode |-> FALSE,
          current_level |-> prev.current_level,
          target_days |-> prev.target_days,
          current_streak |-> nextStreak]

\* mutant: the day that completes a level counts toward the next one
LevelStepKeepsStreak(prev, nextStreak) ==
    LET target == prev.target_days
    IN  IF nextStreak >= target
        THEN LET nextLevel == Min(4, prev.current_level + 1)
             IN  [levelCompleted |-> TRUE, enteredWeeklyMode |-> nextLevel >= 4,
                  current_level |-> nextLevel,
                  target_days |-> IF nextLevel >= 4 THEN prev.target_days
                                  ELSE TargetAt(nextLevel),
                  current_streak |-> nextStreak]
        ELSE [levelCompleted |-> FALSE, enteredWeeklyMode |-> FALSE,
              current_level |-> prev.current_level,
              target_days |-> prev.target_days,
              current_streak |-> nextStreak]

\* the level-up block of markCleanToday (lines 245-265 and 174-192)
LevelStep(prev, nextStreak) ==
    LET target == prev.target_days
    IN  IF nextStreak >= target
        THEN LET nextLevel == Min(4, prev.current_level + 1)
             IN  IF nextLevel >= 4
                 THEN [levelCompleted |-> TRUE, enteredWeeklyMode |-> TRUE,
                       current_level |-> nextLevel,
                       target_days |-> prev.target_days,
                       current_streak |-> 0]
                 ELSE [levelCompleted |-> TRUE, enteredWeeklyMode |-> FALSE,
                       current_level |-> nextLevel,
                       target_days |-> TargetAt(nextLevel),
                       current_streak |-> 0]
        ELSE [levelCompleted |-> FALSE, enteredWeeklyMode |-> FALSE,
              current_level |-> prev.current_level,
              target_days |-> prev.target_days,
              current_streak |-> nextStreak]

\* mutant: the same-day "broke" test is missing
CleanRejectedNever(prev, today) == FALSE

\* the test on lines 213 and 149
CleanRejected(prev, today) ==
    prev.last_action_date = today /\ prev.last_action_kind = "broke"

\* mutant: a second clean call on the same day is counted again
CleanSameDayNever(prev, today) == FALSE

\* the test on lines 233 and 163
CleanSameDay(prev, today) == prev.last_action_date = today

\* mutant: a clean day in a new week of weekly mode also opens the week's
\* slip allowance
CleanWeeklyResetsWeek(prev, today) ==
    LET weekStart == startOfWeekISO(fromISODateLocal(today))
    IN  [prev EXCEPT !.last_action_date = today,
                     !.last_action_kind = "clean",
                     !.weekly_usage_count =
                         IF prev.weekly_reset_date # weekStart
                         THEN 0 ELSE prev.weekly_usage_count,
                     !.weekly_reset_date = weekStart]

\* the weekly branch of markCleanToday (lines 219-225 and 155-160), before
\* the recap is spread in
CleanWeekly(prev, today) ==
    [prev EXCEPT !.last_action_date = today,
                 !.last_action_kind = "clean"]

\* the body of the markCleanToday transaction, run on the document read;
\* wrote tells whether tx.set was called
TxClean(prev, today) ==
    IF CleanRejected(prev, today)
    THEN [updated |-> prev, levelCompleted |-> FALSE,
          enteredWeeklyMode |-> getFreedomMode(prev) = "weekly",
          wrote |-> FALSE]
    ELSE IF getFreedomMode(prev) = "weekly"
    THEN [updated |-> WithRecap(CleanWeekly(prev, today),
                                applyWeeklyRecap(prev, today, "clean")),
          levelCompleted |-> FALSE, enteredWeeklyMode |-> TRUE,
          wrote |-> TRUE]
    ELSE IF CleanSameDay(prev, today)
    THEN [updated |-> prev, levelCompleted |-> FALSE,
          enteredWeeklyMode |-> FALSE, wrote |-> FALSE]
    ELSE LET step == LevelStep(prev, NextStreak(prev, today))
         IN  [updated |-> WithRecap([prev EXCEPT
                                       !.current_level = step.current_level,
                                       !.target_days = step.target_days,
                                       !.current_streak = step.current_streak,
                                       !.last_action_date = today,
                                       !.last_action_kind = "clean"],
                                    applyWeeklyRecap(prev, today, "clean")),
              levelCompleted |-> step.levelCompleted,
              enteredWeeklyMode |-> step.enteredWeeklyMode,
              wrote |-> TRUE]

\* mutant: the local transition lacks the rule that a clean day cannot
\* follow a slip of the same day
applyCleanLocalNoRejection(prevIn, today) ==
    LET prev == prevIn
    IN  IF getFreedomMode(prev) = "weekly"
        THEN [updated |-> WithRecap(CleanWeekly(prev, today),
                                    applyWeeklyRecap(prev, today, "clean")),
              levelCompleted |-> FALSE, enteredWeeklyMode |-> TRUE]
        ELSE IF CleanSameDay(prev, today)
        THEN [updated |-> prev, levelCompleted |-> FALSE,
              enteredWeeklyMode |-> FALSE]
        ELSE LET step == LevelStep(prev, NextStreak(prev, today))
             IN  [updated |-> WithRecap([prev EXCEPT
                                       !.current_level = step.current_level,
                                       !.target_days = step.target_days,
                                       !.current_streak = step.current_streak,
                                       !.last_action_date = today,
                                       !.last_action_kind = "clean"],
                                    applyWeeklyRecap(prev, today, "clean")),
                  levelCompleted |-> step.levelCompleted,
                  enteredWeeklyMode |-> step.enteredWeeklyMode]

\* applyCleanLocal(prevIn) of markCleanToday
applyCleanLocal(prevIn, today) ==
    LET prev == MergeOntoDefault(prevIn)
    IN  IF CleanRejected(prev, today)
        THEN [updated |-> prev, levelCompleted |-> FALSE,
              enteredWeeklyMode |-> getFreedomMode(prev) = "weekly"]
        ELSE IF getFreedomMode(prev) = "weekly"
        THEN [updated |-> WithRecap(CleanWeekly(prev, today),
                                    applyWeeklyRecap(prev, today, "clean")),
              levelCompleted |-> FALSE, enteredWeeklyMode |-> TRUE]
        ELSE IF CleanSameDay(prev, today)
        THEN [updated |-> prev, levelCompleted |-> FALSE,
              enteredWeeklyMode |-> FALSE]
        ELSE LET step == LevelStep(prev, NextStreak(prev, today))
             IN  [updated |-> WithRecap([prev EXCEPT
                                       !.current_level = step.current_level,
                                       !.target_days = step.target_days,
                                       !.current_streak = step.current_streak,
                                       !.last_action_date = today,
                                       !.last_action_kind = "clean"],
                                    applyWeeklyRecap(prev, today, "clean")),
                  levelCompleted |-> step.levelCompleted,
                  enteredWeeklyMode |-> step.enteredWeeklyMode]

\* mutant: the weekly slip counter is not capped
NextCountUncapped(prev, today) ==
    LET weekStart == startOfWeekISO(fromISODateLocal(today))
        needsReset == prev.weekly_reset_date # weekStart
        count == IF needsReset THEN 0 ELSE prev.weekly_usage_count
    IN  count + 1

\* nextCount of markBrokeIt (lines 341-344 and 309-312)
NextCount(prev, today) ==
    LET weekStart == startOfWeekISO(fromISODateLocal(today))
        needsReset == prev.weekly_reset_date # weekStart
        count == IF needsReset THEN 0 ELSE prev.weekly_usage_count
    IN  Min(1, count + 1)

\* mutant: a slip also takes the user down one level
BrokeProgressiveDemotes(prev, today) ==
    [prev EXCEPT !.current_streak = 0,
                 !.current_level = Max(0, prev.current_level - 1),
                 !.last_action_date = today,
                 !.last_action_kind = "broke"]

\* the progressive branch of markBrokeIt, before the recap is spread in
BrokeProgressive(prev, today) ==
    [prev EXCEPT !.current_streak = 0,
                 !.last_action_date = today,
                 !.last_action_kind = "broke"]

\* mutant: a second slip in the same week sends the user back to level 3
BrokeWeeklyDemotes(prev, today) ==
    [prev EXCEPT !.weekly_reset_date = startOfWeekISO(fromISODateLocal(today)),
                 !.weekly_usage_count = NextCount(prev, today),
                 !.current_level =
                     IF prev.weekly_reset_date = startOfWeekISO(fromISODateLocal(today))
                        /\ prev.weekly_usage_count >= 1
                     THEN 3 ELSE prev.current_level,
                 !.last_action_date = today,
                 !.last_action_kind = "broke"]

\* mutant: a slip in a new week starts the count again but keeps the old
\* week's reset date
BrokeWeeklyKeepsResetDate(prev, today) ==
    [prev EXCEPT !.weekly_usage_count = NextCount(prev, today),
                 !.weekly_reset_date =
                     IF prev.weekly_reset_date = NullDate
                     THEN startOfWeekISO(fromISODateLocal(today))
                     ELSE prev.weekly_reset_date,
                 !.last_action_date = today,
                 !.last_action_kind = "broke"]

\* the weekly branch of markBrokeIt, before the recap is spread in
BrokeWeekly(prev, today) ==
    [prev EXCEPT !.weekly_reset_date = startOfWeekISO(fromISODateLocal(today)),
                 !.weekly_usage_count = NextCount(prev, today),
                 !.last_action_date = today,
                 !.last_action_kind = "broke"]

\* the body of the markBrokeIt transaction, run on the document read
TxBroke(prev, today) ==
    LET recap == applyWeeklyRecap(prev, today, "broke")
    IN  IF getFreedomMode(prev) = "weekly"
        THEN WithRecap(BrokeWeekly(prev, today), recap)
        ELSE WithRecap(BrokeProgressive(prev, today), recap)

\* applyBrokeLocal(prevIn) of markBrokeIt
applyBrokeLocal(prevIn, today) ==
    LET prev == MergeOntoDefault(prevIn)
        recap == applyWeeklyRecap(prev, today, "broke")
    IN  IF getFreedomMode(prev) = "weekly"
        THEN WithRecap(BrokeWeekly(prev, today), recap)
        ELSE WithRecap(BrokeProgressive(prev, today), recap)

\* tx.set(ref, next, {merge: true}): every top-level field of next replaces
\* the stored one; a non-empty map field is merged key by key into the
\* stored map; next carries every field of the schema, so no other stored
\* field survives
SetMerge(old, next) ==
    IF \/ ~old.exists
       \/ "weekly_actions" \notin DOMAIN old
       \/ DOMAIN next.weekly_actions = {}
    THEN next
    ELSE [next EXCEPT !.weekly_actions =
            [k \in (DOMAIN old.weekly_actions) \cup (DOMAIN next.weekly_actions) |->
                IF k \in DOMAIN next.weekly_actions
                THEN next.weekly_actions[k]
                ELSE old.weekly_actions[k]]]

\* the fields of a record that drive the state machine (the recap log is
\* display only)
StateFields(doc) ==
    [current_level |-> doc.current_level,
     target_days |-> doc.target_days,
     current_streak |-> doc.current_streak,
     last_action_date |-> doc.last_action_date,
     last_action_kind |-> doc.last_action_kind,
     weekly_usage_count |-> doc.weekly_usage_count,
     weekly_reset_date |-> doc.weekly_reset_date]

\* the last markCleanToday / markBrokeIt call: its argument, the path it
\* took, the state fields of the record it read, and the flags it returned
\* (the record it returned is the one it left in the cache)
NoCall ==
    [op |-> "none", today |-> NullDate, path |-> "none",
     prev |-> StateFields(defaultDoc),
     levelCompleted |-> FALSE, enteredWeeklyMode |-> FALSE, wrote |-> FALSE]

\* markCleanToday(uid, today), the transaction commits (lines 208-285)
CleanCommit(today) ==
    LET prev == SnapOrDefault(freedomDoc)
        result == TxClean(prev, today)
    IN  /\ freedomDoc' = IF result.wrote
                         THEN SetMerge(freedomDoc, result.updated)
                         ELSE freedomDoc
        /\ cache' = result.updated
        /\ call' = [op |-> "clean", today |-> today, path |-> "commit",
                    prev |-> StateFields(prev),
                    levelCompleted |-> result.levelCompleted,
                    enteredWeeklyMode |-> result.enteredWeeklyMode,
                    wrote |-> result.wrote]
        /\ UNCHANGED <<streakVars, appVars, flightVars, ladderVars, journalVars>>

\* markCleanToday(uid, today), the transaction throws (lines 286-291)
CleanFallback(today) ==
    LET prev == CachedOrDefault(cache)
        res == applyCleanLocal(prev, today)
    IN  /\ cache' = res.updated
        /\ call' = [op |-> "clean", today |-> today, path |-> "fallback",
                    prev |-> StateFields(prev),
                    levelCompleted |-> res.levelCompleted,
                    enteredWeeklyMode |-> res.enteredWeeklyMode,
                    wrote |-> FALSE]
        /\ UNCHANGED <<freedomDoc, streakVars, appVars, flightVars, ladderVars, journalVars>>

markCleanToday(today) == CleanCommit(today) \/ CleanFallback(today)

\* markBrokeIt(uid, today), the transaction commits (lines 333-377)
BrokeCommit(today) ==
    LET prev == SnapOrDefault(freedomDoc)
        updated == TxBroke(prev, today)
    IN  /\ freedomDoc' = SetMerge(freedomDoc, updated)
        /\ cache' = updated
        /\ call' = [op |-> "broke", today |-> today, path |-> "commit",
                    prev |-> StateFields(prev),
                    levelCompleted |-> FALSE, enteredWeeklyMode |-> FALSE,
                    wrote |-> TRUE]
        /\ UNCHANGED <<streakVars, appVars, flightVars, ladderVars, journalVars>>

\* markBrokeIt(uid, today), the transaction throws (lines 378-383)
BrokeFallback(today) ==
    LET prev == CachedOrDefault(cache)
        updated == applyBrokeLocal(prev, today)
    IN  /\ cache' = updated
        /\ call' = [op |-> "broke", today |-> today, path |-> "fallback",
                    prev |-> StateFields(prev),
                    levelCompleted |-> FALSE, enteredWeeklyMode |-> FALSE,
                    wrote |-> FALSE]
        /\ UNCHANGED <<freedomDoc, streakVars, appVars, flightVars, ladderVars, journalVars>>

markBrokeIt(today) == BrokeCommit(today) \/ BrokeFallback(today)

\* the remote document after k committed markCleanToday calls, one on each
\* of the k days that end the day before FirstFreedomDay
RECURSIVE CleanRun(_, _)
CleanRun(j, k) ==
    IF j = 0 THEN NoFreedomDoc
    ELSE LET before == CleanRun(j - 1, k)
             result == TxClean(SnapOrDefault(before),
                               toLocalISODate(FirstFreedomDay - 1 - (k - j)))
         IN  IF result.wrote THEN SetMerge(before, result.updated) ELSE before

\* clean days that take a new user through the whole ladder
LadderDays == LEVEL_TARGETS[1] + LEVEL_TARGETS[2] + LEVEL_TARGETS[3] + LEVEL_TARGETS[4]

\* the stored document when the session starts: a new user, a user two
\* clean days short of level 3, or a user one clean day short of weekly mode
StoredAtStart == { CleanRun(k, k) : k \in {0, LadderDays - 2 - LEVEL_TARGETS[4], LadderDays - 1} }

FreedomInit ==
    /\ freedomDoc \in StoredAtStart
    /\ cache = NoFreedomDoc
    /\ call = NoCall

FreedomNext ==
    \/ \E d \in FreedomDates : markCleanToday(d)
    \/ \E d \in FreedomDates : markBrokeIt(d)

----------------------------------------------------------------------------
(* Freedom streak engine with failing local storage *)

\* a cache entry that JSON.parse rejects
Unparsable == [exists |-> FALSE, raw |-> "unparsable"]

\* how runTransaction ends: it commits, or it throws one of the store's
\* errors
TxOutcomes == {"commit", "network-error", "permission-denied", "unavailable"}

\* how a localStorage call ends
StorageOutcomes == {"ok", "throws"}

\* readFreedomCache(uid) when getItem may throw: the catch on line 54 turns
\* a throw, like a missing or unparsable entry, into null
readFreedomCacheWith(c, getItem) ==
    IF getItem = "throws" THEN NoFreedomDoc ELSE readFreedomCache(c)

\* mutant: the fallback path starts from the default record whatever the
\* cache holds
CachedOrDefaultWithNoCache(c, getItem) == defaultDoc

\* readFreedomCache(uid) ?? defaultDoc(uid) when getItem may throw
CachedOrDefaultWith(c, getItem) ==
    LET read == readFreedomCacheWith(c, getItem)
    IN  IF read.exists THEN read ELSE defaultDoc

\* how the read ended, as seen from inside readFreedomCache
CacheReadKind(c, getItem) ==
    IF getItem = "throws" THEN "throws"
    ELSE IF c.exists THEN "record"
    ELSE IF c = Unparsable THEN "unparsable"
    ELSE "missing"

\* mutant: writeFreedomCache without its try/catch
writeFreedomCachePropagates(setItem) == setItem = "throws"

\* whether writeFreedomCache(uid, doc) throws: the catch on lines 62-64
\* swallows what setItem throws
writeFreedomCacheThrows(setItem) == FALSE

\* mutant: a failing write loses the entry that was there
writeFreedomCacheClearsOnFailure(c, doc, setItem) ==
    IF setItem = "ok" THEN doc ELSE NoFreedomDoc

\* the cache entry after writeFreedomCache(uid, doc)
writeFreedomCache(c, doc, setItem) == IF setItem = "ok" THEN doc ELSE c

\* calls made so far in a behaviour with failing local storage
CallsMade == IF call.op = "none" THEN 0 ELSE call.n

\* markCleanToday(uid, today) with every outcome of the transaction and of
\* the two storage calls (lines 207-291): the try block ends in the catch
\* block when the transaction or anything after it throws, and the call
\* rejects only when the catch block throws
markCleanTodaySettles(today, tx, getItem, setItem) ==
    LET result == TxClean(SnapOrDefault(freedomDoc), today)
        committed == tx = "commit"
        caught == ~committed \/ writeFreedomCacheThrows(setItem)
        res == applyCleanLocal(CachedOrDefaultWith(cache, getItem), today)
        returned == IF caught THEN res ELSE result
    IN  /\ CallsMade < MaxCalls
        /\ freedomDoc' = IF committed /\ result.wrote
                         THEN SetMerge(freedomDoc, result.updated)
                         ELSE freedomDoc
        /\ cache' = writeFreedomCache(cache, returned.updated, setItem)
        /\ call' = [op |-> "clean", today |-> today, n |-> CallsMade + 1,
                    cacheBefore |-> cache,
                    path |-> IF caught THEN "fallback" ELSE "commit",
                    tx |-> tx,
                    cacheRead |-> IF caught THEN CacheReadKind(cache, getItem)
                                  ELSE "none",
                    cacheWrite |-> setItem,
                    settled |-> IF caught /\ writeFreedomCacheThrows(setItem)
                                THEN "rejected" ELSE "resolved",
                    updated |-> returned.updated,
                    levelCompleted |-> returned.levelCompleted,
                    enteredWeeklyMode |-> returned.enteredWeeklyMode]
        /\ UNCHANGED <<streakVars, appVars, flightVars, ladderVars, journalVars>>

\* markBrokeIt(uid, today) with every outcome of the transaction and of the
\* two storage calls (lines 332-383)
markBrokeItSettles(today, tx, getItem, setItem) ==
    LET updated == TxBroke(SnapOrDefault(freedomDoc), today)
        committed == tx = "commit"
        caught == ~committed \/ writeFreedomCacheThrows(setItem)
        res == applyBrokeLocal(CachedOrDefaultWith(cache, getItem), today)
        returned == IF caught THEN res ELSE updated
    IN  /\ CallsMade < MaxCalls
        /\ freedomDoc' = IF committed THEN SetMerge(freedomDoc, updated)
                         ELSE freedomDoc
        /\ cache' = writeFreedomCache(cache, returned, setItem)
        /\ call' = [op |-> "broke", today |-> today, n |-> CallsMade + 1,
                    cacheBefore |-> cache,
                    path |-> IF caught THEN "fallback" ELSE "commit",
                    tx |-> tx,
                    cacheRead |-> IF caught THEN CacheReadKind(cache, getItem)
                                  ELSE "none",
                    cacheWrite |-> setItem,
                    settled |-> IF caught /\ writeFreedomCacheThrows(setItem)
                                THEN "rejected" ELSE "resolved",
                    updated |-> returned,
                    levelCompleted |-> FALSE,
                    enteredWeeklyMode |-> FALSE]
        /\ UNCHANGED <<streakVars, appVars, flightVars, ladderVars, journalVars>>

\* the cache entry is damaged outside the engine
CorruptCache ==
    /\ cache.exists
    /\ cache' = Unparsable
    /\ UNCHANGED <<freedomDoc, call, streakVars, appVars, flightVars, ladderVars, journalVars>>

\* the cache entry is removed outside the engine (site data cleared)
RemoveCache ==
    /\ cache # NoFreedomDoc
    /\ cache' = NoFreedomDoc
    /\ UNCHANGED <<freedomDoc, call, streakVars, appVars, flightVars, ladderVars, journalVars>>

\* how getDoc ends
ReadOutcomes == {"ok", "throws"}

\* a document stored by an earlier version of the schema, without the
\* recap and weekly-control fields: level 0 just completed, the day before
\* the window
OldSchemaDoc ==
    [exists |-> TRUE,
     current_level |-> 1,
     target_days |-> LEVEL_TARGETS[2],
     current_streak |-> 0,
     last_action_date |-> toLocalISODate(FirstDay - 1),
     last_action_kind |-> "clean"]

\* getFreedomStreak(uid) with every outcome of getDoc and of the two storage
\* calls (lines 105-127)
getFreedomStreak(read, getItem, setItem) ==
    LET cached == readFreedomCacheWith(cache, getItem)
        found == read = "ok" /\ freedomDoc.exists
        merged == MergeOntoDefault(freedomDoc)
        returned == IF found THEN merged
                    ELSE IF cached.exists THEN cached ELSE defaultDoc
    IN  /\ cache' = IF found THEN writeFreedomCache(cache, merged, setItem)
                    ELSE cache
        /\ call' = [op |-> "get", today |-> NullDate, n |-> CallsMade,
                    cacheBefore |-> cache,
                    path |-> IF found THEN "document"
                             ELSE IF read = "ok" THEN "no-document"
                             ELSE "read-error",
                    tx |-> read,
                    cacheRead |-> CacheReadKind(cache, getItem),
                    cacheWrite |-> IF found THEN setItem ELSE "none",
                    settled |-> "resolved",
                    updated |-> returned,
                    levelCompleted |-> FALSE,
                    enteredWeeklyMode |-> FALSE]
        /\ UNCHANGED <<freedomDoc, streakVars, appVars, flightVars, ladderVars, journalVars>>

StorageNext ==
    \/ \E d \in Dates, tx \in TxOutcomes, g \in StorageOutcomes, w \in StorageOutcomes :
          markCleanTodaySettles(d, tx, g, w)
    \/ \E d \in Dates, tx \in TxOutcomes, g \in StorageOutcomes, w \in StorageOutcomes :
          markBrokeItSettles(d, tx, g, w)
    \/ CorruptCache
    \/ RemoveCache

\* the engine's three entry points: the two actions with a transaction
\* that commits or finds the store unavailable and with working storage,
\* and the read with every outcome of getDoc and of the storage calls
ReadNext ==
    \/ \E d \in Dates, tx \in {"commit", "unavailable"} :
          markCleanTodaySettles(d, tx, "ok", "ok")
    \/ \E d \in Dates, tx \in {"commit", "unavailable"} :
          markBrokeItSettles(d, tx, "ok", "ok")
    \/ CorruptCache
    \/ RemoveCache
    \/ \E r \in ReadOutcomes, g \in StorageOutcomes, w \in StorageOutcomes :
          getFreedomStreak(r, g, w)

----------------------------------------------------------------------------
(* The App component: src/App.tsx (activity log, displayed streak) *)

\* the local days on which logActivity is called
LogDays == FirstFreedomDay .. (FirstFreedomDay + MaxLogDay - 1)

\* hours of the local day at which new Date() is taken
Hours == {1, 23}

\* whole hours the device's zone is ahead of UTC
UtcOffsets == {-5, 0, 5}

\* new Date().toISOString().split('T')[0] for the instant at local hour h of
\* local day n on a device utcOffset hours ahead of UTC: the calendar date
\* of that instant in UTC
toUTCISODate(n, h, utcOffset) ==
    toLocalISODate((n * 24 + h - utcOffset) \div 24)

\* the date keys a logActivity() call can compute in the window
Keys == { toUTCISODate(n, h, o) : n \in LogDays, h \in Hours, o \in UtcOffsets }

\* mutant: every call appends an entry
recordActivityAppends(prev, today) ==
    Append(prev, [date |-> today, count |-> 1])

\* the updater logActivity hands to setActivities (lines 54-60)
recordActivity(prev, today) ==
    IF \E i \in 1..Len(prev) : prev[i].date = today
    THEN [i \in 1..Len(prev) |->
             IF prev[i].date = today
             THEN [prev[i] EXCEPT !.count = prev[i].count + 1]
             ELSE prev[i]]
    ELSE Append(prev, [date |-> today, count |-> 1])

\* the promise chains of the component's logActivity calls: the streak
\* calls of one component are followed one at a time
Chains == {1}

\* no logActivity call is running on a chain
IdleChain == [pc |-> "idle", before |-> << >>]

\* state of the component: uid (signed in or not), the activities and
\* streak state, the length of visionItems and tasks, the number of
\* console.error calls, and per running logActivity call its promise chain
\* with the activities state the call found; calls and last record the
\* logActivity calls made (per date key, and the key and local date of the
\* latest)
NoApp(signedIn) ==
    [uid |-> signedIn,
     activities |-> << >>,
     streak |-> NoStreakDoc,
     visionItems |-> 0,
     tasks |-> 0,
     chain |-> [t \in Chains |-> IdleChain],
     errors |-> 0,
     calls |-> [k \in Keys |-> 0],
     last |-> [key |-> NullDate, local |-> NullDate]]

LogsMade == LET RECURSIVE Sum(_)
                Sum(S) == IF S = {} THEN 0
                          ELSE LET k == CHOOSE x \in S : TRUE
                               IN  app.calls[k] + Sum(S \ {k})
            IN  Sum(Keys)

\* const today = date || new Date().toISOString().split('T')[0], every call
\* site passing no date (line 53)
TodayKey(n, h, utcOffset) == toUTCISODate(n, h, utcOffset)

\* logActivity() at local hour h of local day n (lines 52-69): the log is
\* updated, and a signed-in user's streak call is started on chain t
logActivity(n, h, utcOffset, t, items, tasks) ==
    LET today == TodayKey(n, h, utcOffset)
        logged == [app EXCEPT
                     !.activities = recordActivity(@, today),
                     !.visionItems = items,
                     !.tasks = tasks,
                     !.calls[today] = @ + 1,
                     !.last = [key |-> today, local |-> toLocalISODate(n)]]
    IN  /\ LogsMade < MaxLogs
        /\ IF app.uid
           THEN /\ app.chain[t].pc = "idle"
                /\ streakVer < MaxWrites
                /\ tab' = [tab EXCEPT ![t] =
                             [pc |-> "read", today |-> today,
                              snap |-> streakDoc, ver |-> streakVer,
                              first |-> streakDoc, attempts |-> 1]]
                /\ app' = [logged EXCEPT
                             !.chain[t] = [pc |-> "recording",
                                           before |-> app.activities]]
           ELSE /\ t = 1
                /\ app' = logged
                /\ UNCHANGED tab
        /\ UNCHANGED <<streakDoc, streakVer, freedomVars, flightVars, ladderVars, journalVars>>

\* onAddItem (lines 103-106)
OnAddItem(n, h, utcOffset, t) ==
    logActivity(n, h, utcOffset, t, app.visionItems + 1, app.tasks)

\* onDeleteItem (line 107)
OnDeleteItem ==
    /\ app.visionItems > 0
    /\ app' = [app EXCEPT !.visionItems = @ - 1]
    /\ UNCHANGED <<streakVars, freedomVars, flightVars, ladderVars, journalVars>>

\* setTasks with a list that is not shorter (lines 112-115)
OnSetTasks(n, h, utcOffset, t, added) ==
    logActivity(n, h, utcOffset, t, app.visionItems, app.tasks + added)

\* setTasks with a shorter list: a task was deleted (lines 112-115)
OnDeleteTask ==
    /\ app.tasks > 0
    /\ app' = [app EXCEPT !.tasks = @ - 1]
    /\ UNCHANGED <<streakVars, freedomVars, flightVars, ladderVars, journalVars>>

\* .then(() => getUserStreak(uid)) (line 65): the transaction resolved
ThenGetUserStreak(t) ==
    /\ app.chain[t].pc = "recording"
    /\ tab[t].pc = "done"
    /\ app' = [app EXCEPT !.chain[t].pc = "reading"]
    /\ UNCHANGED <<streakVars, freedomVars, flightVars, ladderVars, journalVars>>

\* mutant: the displayed streak is cleared when the chain fails
CaughtStreakCleared == NoStreakDoc

\* the streak state after the catch handler ran (line 67): untouched
CaughtStreak == app.streak

\* .catch(...) (line 67) after recordActivityForUser rejected
CatchRecord(t) ==
    /\ app.chain[t].pc = "recording"
    /\ tab[t].pc = "failed"
    /\ app' = [app EXCEPT !.chain[t] = IdleChain, !.errors = @ + 1,
                          !.streak = CaughtStreak]
    /\ UNCHANGED <<streakVars, freedomVars, flightVars, ladderVars, journalVars>>

\* .then(setStreak) (line 66): getDoc resolved (lines 23-25)
ThenSetStreak(t) ==
    /\ app.chain[t].pc = "reading"
    /\ app' = [app EXCEPT !.chain[t] = IdleChain,
                          !.streak = StreakPrev(streakDoc)]
    /\ UNCHANGED <<streakVars, freedomVars, flightVars, ladderVars, journalVars>>

\* .catch(...) (line 67) after getUserStreak rejected
CatchGetUserStreak(t) ==
    /\ app.chain[t].pc = "reading"
    /\ app' = [app EXCEPT !.chain[t] = IdleChain, !.errors = @ + 1,
                          !.streak = CaughtStreak]
    /\ UNCHANGED <<streakVars, freedomVars, flightVars, ladderVars, journalVars>>

AppInit == \E signedIn \in BOOLEAN : app = NoApp(signedIn)

AppNext ==
    \/ \E n \in LogDays, h \in Hours, o \in UtcOffsets, t \in Chains :
          OnAddItem(n, h, o, t)
    \/ OnDeleteItem
    \/ \E n \in LogDays, h \in Hours, o \in UtcOffsets, t \in Chains,
          added \in {0, 1} : OnSetTasks(n, h, o, t, added)
    \/ OnDeleteTask
    \/ \E t \in Chains : CommitRecord(t)
    \/ \E t \in Chains : FailRecord(t)
    \/ \E t \in Chains : ThenGetUserStreak(t)
    \/ \E t \in Chains : CatchRecord(t)
    \/ \E t \in Chains : ThenSetStreak(t)
    \/ \E t \in Chains : CatchGetUserStreak(t)

----------------------------------------------------------------------------
(* Freedom streak engine, calls in flight: two tabs of one user share the  *)
(* remote document and the localStorage entry                              *)

Clients == {1, 2}

IdleClient ==
    [pc |-> "idle", op |-> "none", today |-> NullDate,
     snap |-> NoFreedomDoc, ver |-> 0, attempts |-> 0,
     updated |-> NoFreedomDoc, n |-> 0]

\* markCleanToday / markBrokeIt up to tx.get(ref) of the first attempt
\* (lines 208-210 and 333-335)
BeginFlight(c, op, d) ==
    /\ client[c].pc \in {"idle", "done"}
    /\ client[c].n < MaxFlights
    /\ client' = [client EXCEPT ![c] =
                    [pc |-> "read", op |-> op, today |-> d,
                     snap |-> freedomDoc, ver |-> freedomVer, attempts |-> 1,
                     updated |-> NoFreedomDoc, n |-> client[c].n + 1]]
    /\ UNCHANGED <<freedomVars, freedomVer, net, streakVars, appVars, ladderVars, journalVars>>

\* the transaction body of client c's call, run on the document it read
FlightResult(c) ==
    LET prev == SnapOrDefault(client[c].snap)
    IN  IF client[c].op = "clean"
        THEN TxClean(prev, client[c].today)
        ELSE [updated |-> TxBroke(prev, client[c].today),
              levelCompleted |-> FALSE, enteredWeeklyMode |-> FALSE,
              wrote |-> TRUE]

\* mutant: the store commits whatever was written since the read
SnapshotAlwaysCurrent(c) == TRUE

\* the store's commit test: the document read is still the stored one
SnapshotCurrent(c) == client[c].ver = freedomVer

\* runTransaction resolves: the body's tx.set, if any, is applied
CommitFlight(c) ==
    LET result == FlightResult(c)
    IN  /\ client[c].pc = "read"
        /\ net = "up"
        /\ SnapshotCurrent(c)
        /\ freedomDoc' = IF result.wrote
                         THEN SetMerge(freedomDoc, result.updated)
                         ELSE freedomDoc
        /\ freedomVer' = IF result.wrote THEN freedomVer + 1 ELSE freedomVer
        /\ client' = [client EXCEPT ![c].pc = "committed",
                                    ![c].updated = result.updated]
        /\ UNCHANGED <<cache, call, net, streakVars, appVars, ladderVars, journalVars>>

\* the document changed since tx.get: runTransaction runs the body again
RetryFlight(c) ==
    /\ client[c].pc = "read"
    /\ net = "up"
    /\ ~SnapshotCurrent(c)
    /\ client' = [client EXCEPT ![c].snap = freedomDoc,
                                ![c].ver = freedomVer,
                                ![c].attempts = Min(2, @ + 1)]
    /\ UNCHANGED <<freedomVars, freedomVer, net, streakVars, appVars, ladderVars, journalVars>>

\* runTransaction rejects: the store answers with an error
RejectFlight(c) ==
    /\ client[c].pc = "read"
    /\ net = "up"
    /\ client' = [client EXCEPT ![c].pc = "rejected"]
    /\ UNCHANGED <<freedomVars, freedomVer, net, streakVars, appVars, ladderVars, journalVars>>

\* writeFreedomCache(uid, res.updated); return res (lines 284-285 and
\* 376-377): the continuation of the resolved transaction
MirrorFlight(c) ==
    /\ client[c].pc = "committed"
    /\ cache' = client[c].updated
    /\ client' = [client EXCEPT ![c].pc = "done"]
    /\ UNCHANGED <<freedomDoc, call, freedomVer, net, streakVars, appVars, ladderVars, journalVars>>

\* the catch block (lines 286-291 and 378-383)
FallbackFlight(c) ==
    LET cached == CachedOrDefault(cache)
        updated == IF client[c].op = "clean"
                   THEN applyCleanLocal(cached, client[c].today).updated
                   ELSE applyBrokeLocal(cached, client[c].today)
    IN  /\ client[c].pc = "rejected"
        /\ cache' = updated
        /\ client' = [client EXCEPT ![c].pc = "done",
                                    ![c].updated = updated]
        /\ UNCHANGED <<freedomDoc, call, freedomVer, net, streakVars, appVars, ladderVars, journalVars>>

\* the store stops answering: from here on no request is answered
GoSilent ==
    /\ net = "up"
    /\ net' = "silent"
    /\ UNCHANGED <<freedomVars, client, freedomVer, streakVars, appVars, ladderVars, journalVars>>

FlightInit ==
    /\ client = [c \in Clients |-> IdleClient]
    /\ freedomVer = 0
    /\ net = "up"

\* two tabs, the store reachable and every transaction committing
TabsNext ==
    \/ \E c \in Clients, d \in FreedomDates : BeginFlight(c, "clean", d)
    \/ \E c \in Clients, d \in FreedomDates : BeginFlight(c, "broke", d)
    \/ \E c \in Clients : CommitFlight(c)
    \/ \E c \in Clients : RetryFlight(c)
    \/ \E c \in Clients : MirrorFlight(c)

\* two tabs and a store that may answer with an error or stop answering
PendingNext ==
    \/ TabsNext
    \/ \E c \in Clients : RejectFlight(c)
    \/ \E c \in Clients : FallbackFlight(c)
    \/ GoSilent

\* what the scheduling guarantees: a reachable store answers every pending
\* transaction, and the continuation of a settled promise runs
PendingFairness ==
    \A c \in Clients :
        /\ WF_vars(CommitFlight(c) \/ RetryFlight(c) \/ RejectFlight(c))
        /\ WF_vars(MirrorFlight(c) \/ FallbackFlight(c))

----------------------------------------------------------------------------
(* The ladder of levels over the days of the device clock: every call     *)
(* takes today from new Date(), and the store is out of reach, so each    *)
(* call continues the cached record                                       *)

\* the days the device clock shows in a session on the ladder
LadderWindow == FirstDay .. (FirstDay + MaxLadderDay - 1)

\* the days the clock shows once it has been set back
ReplayWindow == FirstDay .. (FirstDay + MaxReplayDay - 1)

\* the clock and what has been done under it: inOrder tells that the clock
\* was never set back; while it holds, days counts the calls made on
\* another day than the call before (the distinct days called on) and
\* straight tells that every call so far was a markCleanToday on the day of
\* the call before or on the day after it
NoLadder ==
    [clock |-> FirstDay, days |-> 0, inOrder |-> TRUE, straight |-> TRUE]

\* the ladder after a call of kind op at the clock's day, prev being the
\* record the call read
Climbed(prev, op) ==
    LET today == toLocalISODate(ladder.clock)
        first == ladder.days = 0
    IN  IF ~ladder.inOrder THEN ladder
        ELSE [ladder EXCEPT
                !.days = IF first \/ prev.last_action_date # today
                         THEN @ + 1 ELSE @,
                !.straight =
                    /\ @
                    /\ op = "clean"
                    /\ \/ first
                       \/ prev.last_action_date = today
                       \/ fromISODateLocal(prev.last_action_date) + 1
                             = ladder.clock]

\* midnight passes
Tick ==
    /\ ladder.clock + 1 \in
          (IF ladder.inOrder THEN LadderWindow ELSE ReplayWindow)
    /\ ladder' = [ladder EXCEPT !.clock = @ + 1]
    /\ UNCHANGED <<streakVars, freedomVars, appVars, flightVars, journalVars>>

\* the device clock is set back to the first day
SetClockBack ==
    /\ ladder.clock > FirstDay
    /\ ladder.clock \in ReplayWindow
    /\ ladder' = [clock |-> FirstDay, days |-> 0, inOrder |-> FALSE,
                  straight |-> FALSE]
    /\ UNCHANGED <<streakVars, freedomVars, appVars, flightVars, journalVars>>

\* markCleanToday(uid) at the clock's day, the transaction throws (lines
\* 142 and 286-291)
CleanOnClock ==
    LET prev == CachedOrDefault(cache)
        res == applyCleanLocal(prev, toLocalISODate(ladder.clock))
    IN  /\ cache' = res.updated
        /\ ladder' = Climbed(prev, "clean")
        /\ UNCHANGED <<freedomDoc, call, streakVars, appVars, flightVars, journalVars>>

\* markBrokeIt(uid) at the clock's day, the transaction throws (lines
\* 378-383)
BrokeOnClock ==
    LET prev == CachedOrDefault(cache)
    IN  /\ cache' = applyBrokeLocal(prev, toLocalISODate(ladder.clock))
        /\ ladder' = Climbed(prev, "broke")
        /\ UNCHANGED <<freedomDoc, call, streakVars, appVars, flightVars, journalVars>>

LadderInit == ladder = NoLadder

LadderNext ==
    \/ Tick
    \/ SetClockBack
    \/ CleanOnClock
    \/ BrokeOnClock

----------------------------------------------------------------------------
(* Journal entries (src/src/push.ts) *)

\* the dates a journal entry is written for
JournalDates == {toLocalISODate(FirstDay), toLocalISODate(FirstDay + 1)}

\* draftJournal.trim()
Texts == {"", "slept well", "long walk"}

ServerTimes == 1 .. MaxServerTime

NoJournal == [exists |-> FALSE]

\* setDoc(ref, next, {merge: true}): every field next names replaces the
\* stored one, every other stored field stays
SetMergeJournal(old, next) ==
    [f \in (DOMAIN old) \cup (DOMAIN next) |->
        IF f \in DOMAIN next THEN next[f] ELSE old[f]]

\* upsertUserJournal(uid, dateISO, text), lines 134-146; both
\* serverTimestamp() sentinels are resolved to the instant of the write
upsertUserJournal(dateISO, text) ==
    LET next == [exists |-> TRUE,
                 date |-> dateISO,
                 text |-> text,
                 updatedAt |-> serverTime,
                 createdAt |-> serverTime]
    IN  /\ journal' = [journal EXCEPT
                          ![dateISO] = SetMergeJournal(journal[dateISO], next)]
        /\ UNCHANGED <<serverTime, streakVars, freedomVars, appVars,
                       flightVars, ladderVars>>

\* time passes on the server
ServerTick ==
    /\ serverTime + 1 \in ServerTimes
    /\ serverTime' = serverTime + 1
    /\ UNCHANGED <<journal, streakVars, freedomVars, appVars,
                   flightVars, ladderVars>>

JournalInit ==
    /\ journal = [d \in JournalDates |-> NoJournal]
    /\ serverTime = 1

JournalNext ==
    \/ \E d \in JournalDates, text \in Texts : upsertUserJournal(d, text)
    \/ ServerTick

----------------------------------------------------------------------------
(* Specifications *)

\* a session that only logs activities: the freedom record is not touched
InitStreak ==
    /\ StreakInit
    /\ freedomDoc = NoFreedomDoc
    /\ cache = NoFreedomDoc
    /\ call = NoCall
    /\ app = NoApp(TRUE)
    /\ FlightInit
    /\ LadderInit
    /\ JournalInit

\* a session in which the App component logs activities
InitApp ==
    /\ StreakInit
    /\ freedomDoc = NoFreedomDoc
    /\ cache = NoFreedomDoc
    /\ call = NoCall
    /\ AppInit
    /\ FlightInit
    /\ LadderInit
    /\ JournalInit

\* a session that only uses the freedom streak
Init ==
    /\ StreakInit
    /\ FreedomInit
    /\ app = NoApp(TRUE)
    /\ FlightInit
    /\ LadderInit
    /\ JournalInit

\* a new user's session with the freedom streak: no remote document, no
\* cached record
InitNewUser ==
    /\ StreakInit
    /\ freedomDoc = NoFreedomDoc
    /\ cache = NoFreedomDoc
    /\ call = NoCall
    /\ app = NoApp(TRUE)
    /\ FlightInit
    /\ LadderInit
    /\ JournalInit

\* a session that starts with no record at all, or with the remote
\* document and the cache entry an earlier version of the schema left
InitRead ==
    /\ StreakInit
    /\ \/ freedomDoc = NoFreedomDoc /\ cache = NoFreedomDoc
       \/ freedomDoc = OldSchemaDoc /\ cache = OldSchemaDoc
    /\ call = NoCall
    /\ app = NoApp(TRUE)
    /\ FlightInit
    /\ LadderInit
    /\ JournalInit

\* the simple streak engine, two tabs of one user
SpecStreak ==
    /\ InitStreak
    /\ [][StreakNext]_vars

\* the freedom streak engine, one client
Spec ==
    /\ Init
    /\ [][FreedomNext]_vars

\* the freedom streak engine, one client, from the default record
SpecNewUser ==
    /\ InitNewUser
    /\ [][FreedomNext]_vars

\* the freedom streak engine of a new user whose transactions and local
\* storage may fail
SpecStorage ==
    /\ InitNewUser
    /\ [][StorageNext]_vars

\* the freedom streak engine with its read path, on records of the current
\* and of an earlier schema
SpecRead ==
    /\ InitRead
    /\ [][ReadNext]_vars

\* the App component of one tab: activity log and displayed streak
SpecApp ==
    /\ InitApp
    /\ [][AppNext]_vars

\* the freedom streak engine, two tabs, the store reachable
SpecTabs ==
    /\ InitNewUser
    /\ [][TabsNext]_vars

\* the freedom streak engine, two tabs, a store that may fail or fall
\* silent; a reachable store answers, and continuations run
SpecPending ==
    /\ InitNewUser
    /\ [][PendingNext]_vars
    /\ PendingFairness

\* the freedom streak engine over the days of the device clock, from the
\* default record, the store out of reach
SpecLadder ==
    /\ InitNewUser
    /\ [][LadderNext]_vars

\* the journal entries of one user, written from the planner
SpecJournal ==
    /\ InitNewUser
    /\ [][JournalNext]_vars

----------------------------------------------------------------------------
(* Simple streak engine: claims *)

\* tab t commits its transaction in this step
Committed(t) == tab[t].pc = "read" /\ tab'[t].pc = "done"

\* calendar date a is the day before calendar date b
DayBefore(a, b) == fromISODateLocal(a) + 1 = fromISODateLocal(b)

\* C1: a committed recordActivityForUser(uid, today) writes currentStreak = 1
\* when the stored lastActiveDate is absent, the stored currentStreak when
\* lastActiveDate = today, the stored currentStreak + 1 when lastActiveDate
\* is the day before today, and 1 in every other case; in all cases
\* longestStreak' = max(longestStreak, currentStreak'), lastActiveDate' =
\* today, and currentStreak grows by at most 1
C1_RecordActivityCases ==
    [][\A t \in Tabs : Committed(t) =>
        LET prev == StreakPrev(streakDoc)
            last == prev.lastActiveDate
            today == tab[t].today
            cur == streakDoc'.currentStreak
        IN  /\ last = NullDate => cur = 1
            /\ last = today => cur = prev.currentStreak
            /\ last # NullDate /\ DayBefore(last, today)
                  => cur = prev.currentStreak + 1
            /\ last # NullDate /\ last # today /\ ~DayBefore(last, today)
                  => cur = 1
            /\ streakDoc'.longestStreak = Max(prev.longestStreak, cur)
            /\ streakDoc'.lastActiveDate = today
            /\ cur <= prev.currentStreak + 1]_vars

\* C1 witness: a call with a date earlier than the stored lastActiveDate has
\* reset a streak of 2 or more to 1 and kept the longest streak
C1_Witness ==
    \E t \in Tabs :
        /\ tab[t].pc = "done"
        /\ streakVer = tab[t].ver + 1
        /\ tab[t].snap.exists
        /\ tab[t].snap.currentStreak >= 2
        /\ fromISODateLocal(tab[t].today)
              < fromISODateLocal(tab[t].snap.lastActiveDate)
        /\ streakDoc.currentStreak = 1
        /\ streakDoc.longestStreak = tab[t].snap.longestStreak
        /\ streakDoc.lastActiveDate = tab[t].today

\* C2: from the default record, after any sequence of committed calls the
\* stored record has longestStreak >= currentStreak, and longestStreak never
\* decreases from one call to the next
C2_LongestDominates ==
    /\ [](streakDoc.exists => streakDoc.longestStreak >= streakDoc.currentStreak)
    /\ [][StreakPrev(streakDoc').longestStreak
             >= StreakPrev(streakDoc).longestStreak]_vars

\* C2 witness: the current streak has fallen below the longest one
C2_Witness ==
    /\ streakDoc.exists
    /\ streakDoc.currentStreak = 1
    /\ streakDoc.longestStreak >= 3

\* C3: two calls for the same date d that both started from the same stored
\* record with lastActiveDate = d - 1 and currentStreak = n, and both
\* committed, leave currentStreak = n + 1
C3_ConcurrentSameDay ==
    ( /\ tab[1].pc = "done"
      /\ tab[2].pc = "done"
      /\ tab[1].today = tab[2].today
      /\ tab[1].first = tab[2].first
      /\ tab[1].first.exists
      /\ DayBefore(tab[1].first.lastActiveDate, tab[1].today) )
    => /\ streakDoc.currentStreak = tab[1].first.currentStreak + 1
       /\ streakDoc.lastActiveDate = tab[1].today

\* C3 witness: the two calls overlapped, the second to commit ran its
\* transaction body again on the record the first had written
C3_Witness ==
    /\ tab[1].pc = "done"
    /\ tab[2].pc = "done"
    /\ tab[1].today = tab[2].today
    /\ tab[1].first = tab[2].first
    /\ tab[1].first.exists
    /\ DayBefore(tab[1].first.lastActiveDate, tab[1].today)
    /\ tab[1].first.currentStreak >= 1
    /\ \E t \in Tabs : tab[t].attempts = 2 /\ tab[t].snap.lastActiveDate = tab[t].today

----------------------------------------------------------------------------
(* Freedom streak engine: claims *)

\* this step is a markCleanToday call
CleanCall == call'.op = "clean"

\* this step is a markBrokeIt call
BrokeCall == call'.op = "broke"

\* the record this step's call reads: the remote document inside the
\* transaction, the cached record on the fallback path
Read ==
    IF call'.path = "commit" THEN SnapOrDefault(freedomDoc)
    ELSE CachedOrDefault(cache)

\* the record this step's call returns: both paths hand the returned record
\* to writeFreedomCache
Returned == cache'

\* the Monday on or before a calendar date (2024-01-01 is a Monday)
MondayOf(iso) ==
    LET n == fromISODateLocal(iso) IN toLocalISODate(n - (n % 7))

\* nextStreak as the claims state it
StatedNextStreak(prev, today) ==
    IF prev.last_action_date # NullDate /\ DayBefore(prev.last_action_date, today)
    THEN prev.current_streak + 1
    ELSE 1

\* C4: in progressive mode a markCleanToday on a day other than
\* last_action_date whose nextStreak reaches target_days returns
\* levelCompleted, the next level (capped at 4) and current_streak = 0, with
\* the ladder's target and enteredWeeklyMode = FALSE below level 4 and
\* enteredWeeklyMode = TRUE at level 4; a markBrokeIt on a level 4 record
\* returns weekly_usage_count = 1 and level 4
C4_LevelUp ==
    /\ ( /\ call.op = "clean"
          /\ call.prev.current_level < 4
          /\ call.prev.last_action_date # call.today
          /\ StatedNextStreak(call.prev, call.today) >= call.prev.target_days )
        => /\ call.levelCompleted
           /\ cache.current_level = Min(4, call.prev.current_level + 1)
           /\ cache.current_streak = 0
           /\ cache.current_level < 4
                 => /\ cache.target_days = LEVEL_TARGETS[cache.current_level + 1]
                    /\ ~call.enteredWeeklyMode
           /\ cache.current_level = 4 => call.enteredWeeklyMode
    /\ (call.op = "broke" /\ call.prev.current_level = 4)
        => /\ cache.weekly_usage_count = 1
           /\ cache.current_level = 4

\* C4 witness: the call that completes level 3 has entered weekly mode
C4_Witness ==
    /\ call.op = "clean"
    /\ call.prev.current_level = 3
    /\ call.prev.current_streak = 6
    /\ call.levelCompleted
    /\ call.enteredWeeklyMode
    /\ cache.current_level = 4
    /\ cache.current_streak = 0

\* C5: in progressive mode a markCleanToday on a day other than
\* last_action_date has nextStreak = current_streak + 1 when last_action_date
\* is the day before today and 1 otherwise; when nextStreak < target_days it
\* returns current_streak = nextStreak with level and target unchanged
C5_NextStreak ==
    ( /\ call.op = "clean"
      /\ call.prev.current_level < 4
      /\ call.prev.last_action_date # call.today
      /\ StatedNextStreak(call.prev, call.today) < call.prev.target_days )
    => /\ cache.current_streak = StatedNextStreak(call.prev, call.today)
       /\ cache.current_level = call.prev.current_level
       /\ cache.target_days = call.prev.target_days
       /\ ~call.levelCompleted

\* C5 witness: a clean day right after the last action has taken the streak
\* from 1 to 2 below the target
C5_Witness ==
    /\ call.op = "clean"
    /\ call.prev.current_level < 4
    /\ call.prev.last_action_date # NullDate
    /\ DayBefore(call.prev.last_action_date, call.today)
    /\ call.prev.current_streak = 1
    /\ ~call.levelCompleted
    /\ cache.current_streak = 2

\* C6: in the remote document and in the cached record, current_level < 4
\* implies current_streak < target_days
C6_StreakBelowTarget ==
    \A r \in {freedomDoc, cache} :
        (r.exists /\ r.current_level < 4) => r.current_streak < r.target_days

\* C6 witness: a call has left a progressive record one day short of its
\* target
C6_Witness ==
    /\ call.op = "clean"
    /\ cache.current_level \in 1 .. 3
    /\ cache.current_streak = cache.target_days - 1

\* C7: a call that reads a record with current_level = 4 returns a record
\* with current_level = 4, on either path, and a remote document with
\* current_level = 4 keeps it
C7_WeeklyAbsorbing ==
    [][ /\ ((CleanCall \/ BrokeCall) /\ Read.current_level = 4)
           => Returned.current_level = 4
        /\ (freedomDoc.exists /\ freedomDoc.current_level = 4)
           => freedomDoc'.current_level = 4 ]_vars

\* C7 witness: a second markBrokeIt in the same week of weekly mode
C7_Witness ==
    /\ call.op = "broke"
    /\ call.prev.current_level = 4
    /\ call.prev.weekly_usage_count = 1
    /\ call.prev.weekly_reset_date = MondayOf(call.today)
    /\ cache.current_level = 4

\* C8: a markCleanToday(today) that reads last_action_date = today and
\* last_action_kind = 'broke' returns the record read, writes nothing to the
\* remote document and reports levelCompleted = FALSE
C8_CleanAfterBrokeRejected ==
    [][ ( /\ CleanCall
          /\ Read.last_action_date = call'.today
          /\ Read.last_action_kind = "broke" )
        => /\ Returned = Read
           /\ ~call'.wrote
           /\ freedomDoc' = freedomDoc
           /\ ~call'.levelCompleted ]_vars

\* C8 witness: markCleanToday(d) right after markBrokeIt(d) has been rejected
C8_Witness ==
    /\ call.op = "clean"
    /\ call.prev.last_action_date = call.today
    /\ call.prev.last_action_kind = "broke"
    /\ cache.last_action_kind = "broke"
    /\ cache.last_action_date = call.today

C10_BrokeProgressiveFrame ==
    (call.op = "broke" /\ call.prev.current_level < 4)
    => /\ cache.current_streak = 0
       /\ cache.last_action_date = call.today
       /\ cache.last_action_kind = "broke"
       /\ cache.weekly_recap_week_start = MondayOf(call.today)
       /\ cache.weekly_actions[call.today] = "broke"
       /\ cache.current_level = call.prev.current_level
       /\ cache.target_days = call.prev.target_days
       /\ cache.weekly_usage_count = call.prev.weekly_usage_count
       /\ cache.weekly_reset_date = call.prev.weekly_reset_date
       /\ call.path = "commit"
             => /\ StateFields(freedomDoc) = StateFields(cache)
                /\ freedomDoc.weekly_recap_week_start = MondayOf(call.today)
                /\ freedomDoc.weekly_actions[call.today] = "broke"

\* C10 witness: a slip at level 1 or above has reset a running streak and
\* kept the level
C10_Witness ==
    /\ call.op = "broke"
    /\ call.prev.current_level \in 1 .. 3
    /\ call.prev.current_streak >= 1
    /\ cache.current_streak = 0
    /\ cache.current_level = call.prev.current_level
    /\ cache.target_days = call.prev.target_days

\* C11: a markCleanToday(today) that reads a weekly-mode record and is not
\* rejected returns a record with last_action_date = today, last_action_kind
\* = 'clean', the recap of today's week with today's entry, and
\* current_level, target_days, current_streak, weekly_usage_count and
\* weekly_reset_date as read (also when today lies in a new week); it
\* reports enteredWeeklyMode = TRUE and levelCompleted = FALSE, and after a
\* commit the remote document has the same state fields
C11_CleanWeeklyFrame ==
    ( /\ call.op = "clean"
      /\ call.prev.current_level = 4
      /\ ~(call.prev.last_action_date = call.today
             /\ call.prev.last_action_kind = "broke") )
    => /\ cache.last_action_date = call.today
       /\ cache.last_action_kind = "clean"
       /\ cache.weekly_recap_week_start = MondayOf(call.today)
       /\ cache.weekly_actions[call.today] = "clean"
       /\ cache.current_level = call.prev.current_level
       /\ cache.target_days = call.prev.target_days
       /\ cache.current_streak = call.prev.current_streak
       /\ cache.weekly_usage_count = call.prev.weekly_usage_count
       /\ cache.weekly_reset_date = call.prev.weekly_reset_date
       /\ call.enteredWeeklyMode
       /\ ~call.levelCompleted
       /\ call.path = "commit" => StateFields(freedomDoc) = StateFields(cache)

\* C11 witness: a clean day in weekly mode, in the week after the one whose
\* slip was used, has kept the used slip and its week
C11_Witness ==
    /\ call.op = "clean"
    /\ call.prev.current_level = 4
    /\ call.prev.weekly_usage_count = 1
    /\ call.prev.weekly_reset_date # MondayOf(call.today)
    /\ call.prev.last_action_date # call.today
    /\ cache.weekly_usage_count = 1
    /\ cache.weekly_reset_date = call.prev.weekly_reset_date
    /\ cache.last_action_date = call.today

\* C12: weekly_usage_count is 0 or 1 in the remote document and in the
\* cached record, whatever calls were made; a markBrokeIt that reads a
\* weekly-mode record whose slip of today's week is already used returns
\* weekly_usage_count = 1 and current_level = 4
C12_UsageCountAtMostOne ==
    /\ \A r \in {freedomDoc, cache} :
           r.exists => r.weekly_usage_count \in {0, 1}
    /\ ( /\ call.op = "broke"
          /\ call.prev.current_level = 4
          /\ call.prev.weekly_reset_date = MondayOf(call.today)
          /\ call.prev.weekly_usage_count = 1 )
        => /\ cache.weekly_usage_count = 1
           /\ cache.current_level = 4
           /\ call.path = "commit"
                 => /\ freedomDoc.weekly_usage_count = 1
                    /\ freedomDoc.current_level = 4

\* C12 witness: a committed markBrokeIt right after a slip of the same week
\* in weekly mode
C12_Witness ==
    /\ call.op = "broke"
    /\ call.path = "commit"
    /\ call.prev.current_level = 4
    /\ call.prev.last_action_kind = "broke"
    /\ call.prev.weekly_reset_date = MondayOf(call.today)
    /\ call.prev.weekly_usage_count = 1
    /\ freedomDoc.weekly_usage_count = 1
    /\ freedomDoc.current_level = 4

\* C13: a markBrokeIt(today) that reads a weekly-mode record returns
\* weekly_reset_date = the Monday of today's week and weekly_usage_count =
\* 1, which is 0 + 1 when the weekly_reset_date read is another week's (or
\* was never set) and min(1, count read + 1) when it is this week's; after
\* a commit the remote document holds the same two values
C13_BrokeWeeklyCount ==
    (call.op = "broke" /\ call.prev.current_level = 4)
    => LET weekStart == MondayOf(call.today)
           count == IF call.prev.weekly_reset_date # weekStart
                    THEN 0 ELSE call.prev.weekly_usage_count
       IN  /\ cache.weekly_reset_date = weekStart
           /\ cache.weekly_usage_count = Min(1, count + 1)
           /\ cache.weekly_usage_count = 1
           /\ call.path = "commit"
                 => /\ freedomDoc.weekly_reset_date = weekStart
                    /\ freedomDoc.weekly_usage_count = 1

\* C13 witness: a slip in weekly mode in the week after a used slip: the
\* reset date has moved to the new Monday and the count is 1 again
C13_Witness ==
    /\ call.op = "broke"
    /\ call.prev.current_level = 4
    /\ call.prev.weekly_usage_count = 1
    /\ call.prev.weekly_reset_date # NullDate
    /\ call.prev.weekly_reset_date # MondayOf(call.today)
    /\ cache.weekly_reset_date = MondayOf(call.today)
    /\ cache.weekly_usage_count = 1

\* calendar date k lies in the seven days that start on weekStart
InWeekOf(k, weekStart) ==
    /\ weekStart # NullDate
    /\ fromISODateLocal(weekStart) <= fromISODateLocal(k)
    /\ fromISODateLocal(k) <= fromISODateLocal(weekStart) + 6

\* C14: in the remote document and in the cached record, every key k of
\* weekly_actions satisfies weekly_recap_week_start <= k <=
\* weekly_recap_week_start + 6 days (an action in another week than the
\* stored weekly_recap_week_start leaves only today's entry)
C14_RecapWithinWeek ==
    \A r \in {freedomDoc, cache} :
        r.exists => \A k \in DOMAIN r.weekly_actions :
                        InWeekOf(k, r.weekly_recap_week_start)

\* the fields and value ranges of a FreedomStreakDoc that an action returns
HasShape(r) ==
    /\ DOMAIN r = DOMAIN defaultDoc
    /\ r.exists
    /\ r.current_level \in 0 .. 4
    /\ r.target_days \in { LEVEL_TARGETS[i] : i \in DOMAIN LEVEL_TARGETS }
    /\ r.current_streak \in Nat
    /\ r.last_action_date \in Dates
    /\ r.last_action_kind \in {"clean", "broke"}
    /\ r.weekly_recap_week_start = MondayOf(r.last_action_date)
    /\ r.last_action_date \in DOMAIN r.weekly_actions
    /\ r.weekly_usage_count \in {0, 1}

\* C16: whatever the transaction does (commit, network error, permission
\* error, store unavailable), whatever the cache read finds (a record, no
\* entry, an unparsable entry, a throwing getItem) and whether or not the
\* cache write throws, markCleanToday and markBrokeIt resolve, with a record
\* of the FreedomStreakDoc shape dated today, and nothing in what they
\* return depends on the path beyond the record itself
C16_NeverRejects ==
    call.op # "none"
    => /\ call.settled = "resolved"
       /\ HasShape(call.updated)
       /\ call.updated.last_action_date = call.today
       /\ call.levelCompleted \in BOOLEAN
       /\ call.enteredWeeklyMode \in BOOLEAN

\* C16 witness: the store refused the write, the cache entry could not be
\* parsed and the cache write threw: the call still resolved, with the
\* transition applied to the default record
C16_Witness ==
    /\ call.op = "clean"
    /\ call.tx = "permission-denied"
    /\ call.cacheRead = "unparsable"
    /\ call.cacheWrite = "throws"
    /\ call.settled = "resolved"
    /\ call.updated.current_streak = 1
    /\ cache = Unparsable

\* the records a call can be made on in this state: the remote document and
\* the cached record, each merged onto the default
RecordsAtHand == {SnapOrDefault(freedomDoc), CachedOrDefault(cache)}

\* C17: for every record prev at hand and every date today,
\* applyCleanLocal(prev) returns the same state fields and the same
\* levelCompleted and enteredWeeklyMode flags as the body of the
\* markCleanToday transaction run on prev, and applyBrokeLocal(prev) returns
\* the same state fields as the body of the markBrokeIt transaction
C17_LocalEqualsTransaction ==
    \A prev \in RecordsAtHand : \A today \in Dates :
        LET local == applyCleanLocal(prev, today)
            remote == TxClean(prev, today)
        IN  /\ StateFields(local.updated) = StateFields(remote.updated)
            /\ local.levelCompleted = remote.levelCompleted
            /\ local.enteredWeeklyMode = remote.enteredWeeklyMode
            /\ StateFields(applyBrokeLocal(prev, today))
                  = StateFields(TxBroke(prev, today))

\* C17 witness: the cached record has run ahead of the remote document on
\* the fallback path and carries a slip of a day on which both transitions
\* reject a clean action, next to a day on which both count one
C17_Witness ==
    /\ call.path = "fallback"
    /\ freedomDoc.exists
    /\ StateFields(cache) # StateFields(freedomDoc)
    /\ cache.last_action_kind = "broke"
    /\ applyCleanLocal(cache, cache.last_action_date).updated = cache
    /\ ~TxClean(cache, cache.last_action_date).wrote
    /\ \E today \in Dates :
          /\ TxClean(cache, today).wrote
          /\ applyCleanLocal(cache, today).updated.current_streak = 1

\* C18: a markCleanToday or markBrokeIt call whose transaction commits
\* returns the transition applied to the remote document (to the default
\* record when there is none) and stores exactly that record; neither
\* depends on the cache entry, whatever the fallback path wrote to it before
C18_CommitFromRemoteOnly ==
    /\ [][ (call' # call /\ call'.path = "commit") =>
          LET prev == IF freedomDoc.exists THEN freedomDoc ELSE defaultDoc
              today == call'.today
              result == TxClean(prev, today)
          IN  /\ CleanCall =>
                    /\ call'.updated = result.updated
                    /\ call'.levelCompleted = result.levelCompleted
                    /\ freedomDoc' = IF result.wrote
                                     THEN SetMerge(freedomDoc, result.updated)
                                     ELSE freedomDoc
              /\ BrokeCall =>
                    /\ call'.updated = TxBroke(prev, today)
                    /\ freedomDoc' = SetMerge(freedomDoc, TxBroke(prev, today))
              /\ call'.cacheWrite = "ok" => cache' = call'.updated ]_vars
    /\ [][ (call' # call /\ call'.path = "fallback") => freedomDoc' = freedomDoc ]_vars

\* C18 witness: a clean day was recorded offline, and the clean call of the
\* next day committed: it counted from the remote document, which had never
\* seen the first day, so the streak is 1 and the cached 1 was overwritten
\* rather than continued
C18_Witness ==
    /\ call.op = "clean"
    /\ call.path = "commit"
    /\ call.cacheBefore.exists
    /\ call.cacheBefore.current_streak = 1
    /\ DayBefore(call.cacheBefore.last_action_date, call.today)
    /\ call.updated.current_level = 0
    /\ call.updated.current_streak = 1
    /\ freedomDoc.current_streak = 1
    /\ cache = call.updated

\* C19: after every markCleanToday or markBrokeIt call whose transaction
\* committed, the cache holds exactly the record the call returned, and
\* that record has the state fields of the remote document
C19_CacheMirrorsCommit ==
    [][ (call' # call /\ call'.path = "commit")
        => /\ cache' = call'.updated
           /\ StateFields(call'.updated) = StateFields(freedomDoc') ]_vars

\* C19 as amended: after every call whose transaction committed, the record
\* returned has the state fields of the remote document; the cache holds
\* exactly that record when the cache write went through, and is left as it
\* was when setItem threw
C19_CacheMirrorsCommitIfWritten ==
    [][ (call' # call /\ call'.path = "commit")
        => /\ StateFields(call'.updated) = StateFields(freedomDoc')
           /\ freedomDoc'.exists
           /\ call'.cacheWrite = "ok" => cache' = call'.updated
           /\ call'.cacheWrite = "throws" => cache' = cache ]_vars

\* C19 witness: a call committed while setItem threw: the remote document
\* has the returned state, the cache still holds the record of the call
\* before
C19_Witness ==
    /\ call.path = "commit"
    /\ call.cacheWrite = "throws"
    /\ call.cacheBefore.exists
    /\ cache = call.cacheBefore
    /\ StateFields(call.updated) = StateFields(freedomDoc)
    /\ StateFields(cache) # StateFields(freedomDoc)

\* record d spread over the default record, field by field
OntoDefault(d) ==
    [f \in DOMAIN defaultDoc |-> IF f \in DOMAIN d THEN d[f] ELSE defaultDoc[f]]

\* this step is a getFreedomStreak call
GetCall == call' # call /\ call'.op = "get"

\* C20: getFreedomStreak resolves; when getDoc succeeds it returns the
\* stored document spread over the default record (the default record when
\* nothing is stored) and, unless the cache write throws, leaves that record
\* in the cache; when getDoc fails it returns the cached record spread over
\* the default, or the default record when no entry can be read
C20_ReadPath ==
    [][ GetCall =>
          /\ call'.settled = "resolved"
          /\ call'.tx = "ok" =>
                /\ call'.updated = IF freedomDoc.exists
                                   THEN OntoDefault(freedomDoc) ELSE defaultDoc
                /\ call'.cacheWrite # "throws" => cache' = call'.updated
          /\ call'.tx = "throws" =>
                call'.updated = IF call'.cacheRead = "record"
                                THEN OntoDefault(cache) ELSE defaultDoc ]_vars

\* C20 as amended: getFreedomStreak resolves and leaves the remote document
\* alone; when getDoc succeeds and a document exists it returns the document
\* spread over the default record and writes it to the cache (the cache
\* keeps its entry when setItem throws); when getDoc succeeds but no
\* document exists, or getDoc fails, it returns the cached record spread
\* over the default, or the default record when no entry can be read, and
\* leaves the cache as it is
C20_ReadPathByCase ==
    [][ GetCall =>
          /\ call'.settled = "resolved"
          /\ freedomDoc' = freedomDoc
          /\ call'.path = "document" <=> (call'.tx = "ok" /\ freedomDoc.exists)
          /\ call'.path = "document" =>
                /\ call'.updated = OntoDefault(freedomDoc)
                /\ call'.cacheWrite = "ok" => cache' = call'.updated
                /\ call'.cacheWrite = "throws" => cache' = cache
          /\ call'.path # "document" =>
                /\ call'.updated = IF call'.cacheRead = "record"
                                   THEN OntoDefault(cache) ELSE defaultDoc
                /\ cache' = cache ]_vars

\* C20 witness: a stored document of the earlier schema was read: the
\* record returned has the stored level and the default values of the
\* fields the document lacks, and it is now the cache entry
C20_Witness ==
    /\ call.op = "get"
    /\ call.path = "document"
    /\ "weekly_usage_count" \notin DOMAIN freedomDoc
    /\ call.updated.current_level = freedomDoc.current_level
    /\ call.updated.weekly_usage_count = 0
    /\ call.updated.weekly_actions = NoActions
    /\ call.cacheBefore # call.updated
    /\ cache = call.updated

----------------------------------------------------------------------------
(* The weekly allowance as displayed: ensureWeeklyResetLocal *)

\* mutant: the week of the recap is compared as well
ensureWeeklyResetLocalByRecap(docIn, now) ==
    IF getFreedomMode(docIn) # "weekly"
    THEN docIn
    ELSE LET weekStart == startOfWeekISO(now)
         IN  IF /\ docIn.weekly_reset_date = weekStart
                /\ docIn.weekly_recap_week_start = weekStart
             THEN docIn
             ELSE [docIn EXCEPT !.weekly_reset_date = weekStart,
                                !.weekly_usage_count = 0]

\* ensureWeeklyResetLocal(docIn, now): a function of its two arguments; it
\* reads and writes neither the document store nor localStorage
ensureWeeklyResetLocal(docIn, now) ==
    IF getFreedomMode(docIn) # "weekly"
    THEN docIn
    ELSE LET weekStart == startOfWeekISO(now)
         IN  IF docIn.weekly_reset_date = weekStart
             THEN docIn
             ELSE [docIn EXCEPT !.weekly_reset_date = weekStart,
                                !.weekly_usage_count = 0]

\* the week containing now is the one named by date weekStart
WeekOfNow(now) == MondayOf(toLocalISODate(now))

\* the record with the week's allowance opened again
Reopened(r, now) ==
    [r EXCEPT !.weekly_usage_count = 0, !.weekly_reset_date = WeekOfNow(now)]

\* C21 as stated: for every record at hand and every instant now,
\* ensureWeeklyResetLocal returns a copy with weekly_usage_count = 0 when the
\* record is in weekly mode and its weekly_reset_date or its
\* weekly_recap_week_start is not the Monday of the week containing now, and
\* returns the record unchanged otherwise
C21_ResetOnEitherWeek ==
    \A r \in RecordsAtHand : \A now \in FreedomDays :
        IF /\ r.current_level >= 4
           /\ \/ r.weekly_reset_date # WeekOfNow(now)
              \/ r.weekly_recap_week_start # WeekOfNow(now)
        THEN ensureWeeklyResetLocal(r, now).weekly_usage_count = 0
        ELSE ensureWeeklyResetLocal(r, now) = r

\* C21 (amended): for every record at hand and every instant now,
\* ensureWeeklyResetLocal returns the record with weekly_usage_count = 0 and
\* weekly_reset_date = the Monday of the week containing now when the record
\* is in weekly mode and its weekly_reset_date is not that Monday, and
\* returns the record unchanged otherwise, whatever its recap week start is;
\* being a function of the record and now it changes neither the remote
\* document nor the cache
C21_ResetOnResetDate ==
    \A r \in RecordsAtHand : \A now \in FreedomDays :
        IF r.current_level >= 4 /\ r.weekly_reset_date # WeekOfNow(now)
        THEN ensureWeeklyResetLocal(r, now) = Reopened(r, now)
        ELSE ensureWeeklyResetLocal(r, now) = r

\* C21 witness: a weekly-mode record at hand has used its slip; for one
\* instant its week is over and the count is reset, for another its reset
\* date matches while its recap week start does not, and it is returned
\* unchanged
C21_Witness ==
    \E r \in RecordsAtHand : \E now, later \in FreedomDays :
        /\ r.current_level >= 4
        /\ r.weekly_usage_count = 1
        /\ r.weekly_reset_date = WeekOfNow(now)
        /\ r.weekly_recap_week_start # WeekOfNow(now)
        /\ ensureWeeklyResetLocal(r, now) = r
        /\ r.weekly_reset_date # WeekOfNow(later)
        /\ ensureWeeklyResetLocal(r, later).weekly_usage_count = 0

----------------------------------------------------------------------------
(* Claims on timeouts, failures of the simple streak and the App component *)

\* C22: every markCleanToday / markBrokeIt call that has sent its
\* transaction to the store eventually settles (it returns its record),
\* also when the store never answers; the awaits of recordActivityForUser,
\* getUserStreak and getFreedomStreak are written the same way, with no
\* timeout around the store call
C22_EveryCallSettles ==
    \A c \in Clients : (client[c].pc = "read") ~> (client[c].pc = "done")

\* C23: a step in which the transaction of a recordActivityForUser call
\* fails ends the call rejected, with the streak document, its write count
\* and the attempts made untouched; a call resolves only in the step that
\* commits its write, and the streak document changes only in such a step,
\* so a rejected call has written nothing
C23_FailureRejectsWritesNothing ==
    [][\A t \in Tabs :
          /\ (tab[t].pc = "read" /\ tab'[t].pc = "failed") =>
                /\ streakDoc' = streakDoc
                /\ streakVer' = streakVer
                /\ tab'[t].attempts = tab[t].attempts
          /\ (tab[t].pc = "read" /\ tab'[t].pc \notin {"read", "failed"}) =>
                /\ tab'[t].pc = "done"
                /\ streakVer' = streakVer + 1
                /\ streakDoc' = NextStreakDoc(tab[t].snap, tab[t].today)
          /\ (streakDoc' # streakDoc) =>
                \E u \in Tabs : tab[u].pc = "read" /\ tab'[u].pc = "done"
      ]_vars

\* C23 witness: a call was rejected after the store had run its body a
\* second time, while another tab's write stands in the document
C23_Witness ==
    \E t \in Tabs :
        /\ tab[t].pc = "failed"
        /\ tab[t].attempts = 2
        /\ streakDoc.exists
        /\ streakDoc # tab[t].first

\* a step in which the catch handler of chain t runs: recordActivityForUser
\* or the getUserStreak after it was rejected
Caught(t) ==
    /\ app.chain[t].pc \in {"recording", "reading"}
    /\ app'.chain[t].pc = "idle"
    /\ app'.errors = app.errors + 1

\* C24 as stated: when the streak transaction of a logActivity call or the
\* getUserStreak after it fails, the failure is caught and logged, and the
\* displayed streak and the activity log are as they were before the call
C24_FailureRestoresLog ==
    [][\A t \in Chains :
          Caught(t) =>
             /\ app'.streak = app.streak
             /\ app'.activities = app.chain[t].before
      ]_vars

\* C24 (amended): when the streak transaction of a logActivity call or the
\* getUserStreak after it fails, the failure is caught and logged, the chain
\* ends there, and the handler changes neither the displayed streak nor the
\* activity log nor the remote document: the displayed streak is the one
\* shown before, and the activity log keeps the entry the call added before
\* it started the transaction
C24_FailureCaughtLogKept ==
    [][\A t \in Chains :
          /\ Caught(t) =>
                /\ app'.streak = app.streak
                /\ app'.activities = app.activities
                /\ app.activities =
                      recordActivity(app.chain[t].before, tab[t].today)
                /\ app.activities # app.chain[t].before
                /\ UNCHANGED <<streakDoc, streakVer, tab>>
          /\ (app.chain[t].pc = "recording" /\ tab[t].pc = "failed"
                 /\ app'.chain[t] # app.chain[t]) => Caught(t)
          /\ (app.chain[t].pc = "reading" /\ app'.chain[t] # app.chain[t]) =>
                \/ Caught(t)
                \/ app'.streak = StreakPrev(streakDoc) /\ app'.errors = app.errors
      ]_vars

\* C24 witness: a first logActivity call went through and its streak is
\* displayed; the transaction of a second call failed, was logged, and the
\* display still shows the first streak while the log counts both calls
C24_Witness ==
    /\ app.errors = 1
    /\ app.chain[1].pc = "idle"
    /\ tab[1].pc = "failed"
    /\ app.streak.exists
    /\ app.streak = streakDoc
    /\ LogsMade = 2
    /\ \E i \in 1..Len(app.activities) : app.activities[i].count = 2

\* the entries of the activity log for date key k
EntriesFor(log, k) == { i \in 1..Len(log) : log[i].date = k }

\* C25: in every state the activity log has at most one entry per date, an
\* entry exactly for the dates logActivity was called for, and each entry's
\* count is the number of those calls (so at least 1); no step lowers a
\* count or drops an entry, and a step that deletes a vision item or a task
\* leaves the log unchanged
C25_LogCountsCalls ==
    /\ [](\A k \in Keys :
             IF app.calls[k] = 0
             THEN EntriesFor(app.activities, k) = {}
             ELSE /\ Cardinality(EntriesFor(app.activities, k)) = 1
                  /\ \A i \in EntriesFor(app.activities, k) :
                        /\ app.activities[i].count = app.calls[k]
                        /\ app.activities[i].count >= 1)
    /\ [](\A i \in 1..Len(app.activities) : app.activities[i].date \in Keys)
    /\ [][/\ \A i \in 1..Len(app.activities) :
                \E j \in 1..Len(app'.activities) :
                   /\ app'.activities[j].date = app.activities[i].date
                   /\ app'.activities[j].count >= app.activities[i].count
          /\ (app'.visionItems < app.visionItems \/ app'.tasks < app.tasks)
                => app'.activities = app.activities
       ]_vars

\* C25 witness: two logActivity calls for one date are counted in a single
\* entry while no vision item and no task is left
C25_Witness ==
    /\ Len(app.activities) = 1
    /\ app.activities[1].count = 2
    /\ app.calls[app.activities[1].date] = 2
    /\ app.visionItems = 0
    /\ app.tasks = 0

\* C26: the date key of the latest logActivity() call, under which it
\* recorded the activity and which it handed to recordActivityForUser, is
\* the local calendar date of the instant of the call (what toLocalISODate
\* returns for it), at every hour and for every zone offset
C26_KeyIsLocalDate ==
    /\ app.last.key = app.last.local
    /\ \A t \in Chains :
          app.chain[t].pc = "recording" => tab[t].today = app.last.local

----------------------------------------------------------------------------
(* Claims on sequences of calls and on two tabs *)

\* a markCleanToday call for the day of the markBrokeIt call that returned
\* just before it, local storage working throughout and the cache entry
\* still the record markBrokeIt left
CleanAfterBroke ==
    /\ call.op = "broke"
    /\ call.settled = "resolved"
    /\ call.cacheWrite = "ok"
    /\ cache = call.updated
    /\ call' # call
    /\ call'.op = "clean"
    /\ call'.today = call.today
    /\ call'.cacheWrite = "ok"
    /\ call'.cacheRead \in {"none", "record"}

\* C27: a markCleanToday call for day d that follows a returned
\* markBrokeIt call for d returns a record with last_action_kind = "broke"
\* and with the current_streak and current_level markBrokeIt returned,
\* whether each of the two transactions committed or threw
C27_CleanAfterBrokeKeepsBroke ==
    [][CleanAfterBroke =>
          /\ call'.updated.last_action_kind = "broke"
          /\ call'.updated.current_streak = call.updated.current_streak
          /\ call'.updated.current_level = call.updated.current_level
      ]_vars

\* every call made so far has completed, and at least one was made
AllFlightsDone ==
    /\ \A c \in Clients : client[c].pc \in {"idle", "done"}
    /\ \E c \in Clients : client[c].pc = "done"

\* C28: with two tabs sharing the cache and a reachable store, once every
\* markCleanToday / markBrokeIt call has completed, the cached record has
\* the state fields of the remote document
C28_CacheEqualsRemote ==
    AllFlightsDone =>
        /\ cache.exists
        /\ freedomDoc.exists
        /\ StateFields(cache) = StateFields(freedomDoc)

\* the first calls of the two tabs are markCleanToday(d) by tab c and
\* markBrokeIt(d) by tab e, and both transactions have committed
BothCommitted(c, e) ==
    /\ client[c].n = 1 /\ client[c].op = "clean"
    /\ client[e].n = 1 /\ client[e].op = "broke"
    /\ client[c].today = client[e].today
    /\ client[c].pc \in {"committed", "done"}
    /\ client[e].pc \in {"committed", "done"}

\* C29: when markCleanToday(d) and markBrokeIt(d) of a user in progressive
\* mode run concurrently under serializable transactions, then in either
\* commit order the remote document ends with last_action_date = d,
\* last_action_kind = "broke", current_streak = 0 and
\* weekly_actions[d] = "broke"
C29_RaceEndsBroke ==
    \A c, e \in Clients :
        BothCommitted(c, e) =>
            /\ freedomDoc.exists
            /\ freedomDoc.current_level < 4
            /\ freedomDoc.last_action_date = client[e].today
            /\ freedomDoc.last_action_kind = "broke"
            /\ freedomDoc.current_streak = 0
            /\ client[e].today \in DOMAIN freedomDoc.weekly_actions
            /\ freedomDoc.weekly_actions[client[e].today] = "broke"

\* C29 witness: the two calls were in flight together; markBrokeIt
\* committed first, the store ran the body of markCleanToday a second time
\* on the new document, and that run was rejected as a clean action on a
\* broke day
C29_Witness ==
    \E c, e \in Clients :
        /\ BothCommitted(c, e)
        /\ client[c].attempts = 2
        /\ client[c].snap.exists
        /\ client[c].snap.last_action_kind = "broke"
        /\ client[c].updated.last_action_kind = "broke"
        /\ freedomVer = 1

\* target_days as the claims tabulate it by level
StatedTarget(level) == IF level < 4 THEN <<2, 3, 5, 7>>[level + 1] ELSE 7

\* C30: the remote document, the cached record and every record a call
\* returns have current_level in 0..4 and target_days = [2,3,5,7][level]
\* below level 4 and 7 at level 4; the record a call returns has the level
\* of the record it read or that level plus 1, and no step lowers the level
\* of the remote document
C30_TargetFollowsLevel ==
    /\ [](\A r \in {freedomDoc, cache} :
             r.exists => /\ r.current_level \in 0..4
                         /\ r.target_days = StatedTarget(r.current_level))
    /\ [](call.op # "none" =>
             /\ cache.current_level >= call.prev.current_level
             /\ cache.current_level <= call.prev.current_level + 1
             /\ call.prev.target_days = StatedTarget(call.prev.current_level))
    /\ [][freedomDoc.exists =>
             /\ freedomDoc'.exists
             /\ freedomDoc'.current_level >= freedomDoc.current_level
             /\ freedomDoc'.current_level <= freedomDoc.current_level + 1
       ]_vars

\* C30 witness: a markCleanToday call completed the last level: it read a
\* record of level 3 with target 7 and returned one of level 4 with target
\* 7, which the remote document holds
C30_Witness ==
    /\ call.op = "clean"
    /\ call.path = "commit"
    /\ call.levelCompleted
    /\ call.prev.current_level = 3
    /\ call.prev.target_days = 7
    /\ cache.current_level = 4
    /\ cache.target_days = 7
    /\ freedomDoc.current_level = 4

----------------------------------------------------------------------------
(* Claims on the ladder of levels and on the flags of a result *)

\* an upper bound of the number of distinct days called on: the count kept
\* while the clock ran forward, the days of the replay window once it was
\* set back
DaysCalledAtMost == IF ladder.inOrder THEN ladder.days ELSE MaxReplayDay

\* the level reached by one markCleanToday on each of k consecutive days
StatedLevelAfter(k) ==
    IF k >= 17 THEN 4 ELSE IF k >= 10 THEN 3 ELSE IF k >= 5 THEN 2
    ELSE IF k >= 2 THEN 1 ELSE 0

\* one markCleanToday on each of consecutive days and no markBrokeIt: the
\* record has level 4 from the 17th day on and not before
StraightRun ==
    (ladder.inOrder /\ ladder.straight /\ ladder.days >= 1) =>
        /\ cache.current_level = StatedLevelAfter(ladder.days)
        /\ cache.current_level = 4 <=> ladder.days >= LadderDays

\* C31 as stated: from the default record, one markCleanToday on each of
\* consecutive days reaches level 4 first on the 17th day, and no sequence
\* of markCleanToday / markBrokeIt calls on fewer than 17 distinct days
\* reaches weekly mode
C31_SeventeenDays ==
    /\ StraightRun
    /\ (cache.exists /\ cache.current_level = 4) =>
          DaysCalledAtMost >= LadderDays

\* C31 (amended): from the default record, one markCleanToday on each of
\* consecutive days reaches level 4 first on the 17th day, and no sequence
\* of markCleanToday / markBrokeIt calls whose dates never go back reaches
\* weekly mode on fewer than 17 distinct days
C31_SeventeenDaysInOrder ==
    /\ StraightRun
    /\ (cache.exists /\ cache.current_level = 4 /\ ladder.inOrder) =>
          ladder.days >= LadderDays

\* C31 witness: the 17th consecutive clean day has just completed level 3
C31_Witness ==
    /\ ladder.inOrder
    /\ ladder.straight
    /\ ladder.days = LadderDays
    /\ ladder.clock = FirstDay + LadderDays - 1
    /\ cache.current_level = 4
    /\ cache.current_streak = 0
    /\ cache.last_action_date = toLocalISODate(ladder.clock)


\* C32: for every markCleanToday result, levelCompleted is true exactly
\* when the returned current_level is the previous current_level + 1 and
\* false whenever the level is unchanged (every call made in weekly mode,
\* every rejected and every same-day call included), and enteredWeeklyMode
\* is true exactly when the returned current_level is 4
C32_FlagsFollowLevel ==
    call.op = "clean" =>
        /\ call.levelCompleted <=> cache.current_level = call.prev.current_level + 1
        /\ cache.current_level = call.prev.current_level => ~call.levelCompleted
        /\ cache.current_level \in {call.prev.current_level, call.prev.current_level + 1}
        /\ ( \/ getFreedomMode(call.prev) = "weekly"
             \/ CleanRejected(call.prev, call.today)
             \/ CleanSameDay(call.prev, call.today) ) =>
               /\ ~call.levelCompleted
               /\ cache.current_level = call.prev.current_level
        /\ call.enteredWeeklyMode <=> cache.current_level = 4

\* C32 witness: a markCleanToday call in weekly mode, rejected because the
\* user slipped earlier that day, returns enteredWeeklyMode without
\* levelCompleted
C32_Witness ==
    /\ call.op = "clean"
    /\ CleanRejected(call.prev, call.today)
    /\ call.prev.current_level = 4
    /\ cache.current_level = 4
    /\ call.enteredWeeklyMode
    /\ ~call.levelCompleted


----------------------------------------------------------------------------
(* Claims on journal entries *)

\* C33: upsertUserJournal keeps the original createdAt once the journal
\* document exists: after a first upsert for a date stored createdAt = t1,
\* every later upsert for that date updates text and updatedAt and leaves
\* createdAt = t1
C33_CreatedAtKept ==
    [][ \A d \in JournalDates :
          journal[d].exists =>
              /\ journal'[d].exists
              /\ journal'[d].createdAt = journal[d].createdAt ]_vars

====
